---- MODULE Spec2Model ----
(***************************************************************************)
(* Model of src/src/main.py: the sliding-window RateLimiter, the input     *)
(* sanitizer and the GreetingService validation pipeline.                  *)
(*                                                                         *)
(* Time is time.time() * 1000, read as an integer number of milliseconds   *)
(* from a clock that never goes backwards.  Strings are sequences of code  *)
(* points.                                                                 *)
(***************************************************************************)
EXTENDS Integers, Sequences, FiniteSets, TLC

VARIABLES
    window_ms,      \* RateLimiter.window_ms
    max_requests,   \* RateLimiter.max_requests
    requests,       \* RateLimiter.requests: identifier -> list of timestamps
    clock,          \* the value time.time() * 1000 returns now
    history,        \* ghost: every is_allowed call so far, [id, t, ret]
    op,             \* the operation that ran last
    arg,            \* its identifier argument
    allowed,        \* what the last is_allowed returned
    remaining,      \* what the last get_remaining_requests returned
    atomic,         \* concurrent host: is_allowed runs under one global lock
    holder,         \* concurrent host: the thread inside the lock, 0 for none
    heap,           \* concurrent host: the list objects, by reference
    thr,            \* concurrent host: each thread's position and locals
    app_name,       \* GreetingService.config.app_name
    greetArg,       \* the name the last greet was called with
    outcome,        \* "ok", or the error the last greet raised
    greeting,       \* the string the last greet returned, "" when it raised
    greetCalls,     \* greet and get_multiple_greetings calls so far
    names,          \* the list the last get_multiple_greetings was called with
    greetings,      \* the list it returned, [] when it raised
    passed,         \* ghost: how many names it passed to greet
    sanArg,         \* sanitize_input's arguments: input_str, max_length, strip_html
    sanRet,         \* what the call came to: the exception raised, the str returned
    sensArg,        \* is_sensitive_value's arguments: key, value
    sensRet,        \* what the call came to: whether it returned, the bool returned
    confArg,        \* validate_config's argument: the AppConfig
    confRet,        \* what the call came to: "ok", or the check that raised
    env,            \* what a run of main_fallback finds: command line, config, log file
    run             \* the run of main_fallback: its position, args, end and greetings

limiterVars == <<window_ms, max_requests, requests, clock, history, op, arg,
                 allowed, remaining>>

raceVars == <<atomic, holder, heap, thr>>

multiVars == <<names, greetings, passed>>

pureVars == <<sanArg, sanRet, sensArg, sensRet, confArg, confRet>>

mainVars == <<env, run>>

greetVars == <<app_name, greetArg, outcome, greeting, greetCalls, multiVars,
               pureVars, mainVars>>

vars == <<limiterVars, raceVars, greetVars>>

----------------------------------------------------------------------------
(* Bounds of the exploration.                                              *)

MaxTime == 3        \* the clock runs over 0..MaxTime
MaxCalls == 4       \* is_allowed calls per behaviour
MaxRaceTime == 1    \* the clock of the concurrent host runs over 0..MaxRaceTime
MaxRaceCalls == 2   \* is_allowed calls per thread of the concurrent host
MaxNameLen == 2     \* every name of up to MaxNameLen characters is greeted
MaxGreetCalls == 2  \* greet calls per behaviour
MaxGreetTicks == 1  \* windows that elapse per behaviour of the greeting service
MaxNames == 2       \* names per list given to get_multiple_greetings
MaxSanLen == 3      \* every input of up to MaxSanLen characters is sanitized
MaxSensLen == 3     \* every value of up to MaxSensLen characters is classified
MaxVersionLen == 5  \* every app_version of up to MaxVersionLen characters is validated

Identifiers == {"u", "v"}
WindowChoices == {0, 2, 3}
MaxRequestsChoices == {-1, 0, 1, 2}
Threads == {1, 2}
RaceIdentifiers == {"u"}
RaceWindowChoices == {1}
RaceMaxRequestsChoices == {1, 2}

Max(a, b) == IF a >= b THEN a ELSE b

\* a value that is not a str (123, None)
NonString == [is_str |-> FALSE, text |-> << >>]

\* the str whose characters are the code points of text
Str(text) == [is_str |-> TRUE, text |-> text]

\* a thread of the concurrent host that is outside is_allowed
IdleThread(done) ==
    [pc |-> "idle", identifier |-> "u", now |-> 0, user_requests |-> 0,
     valid_requests |-> 0, calls |-> done]

\* n times the character c
Repeat(c, n) == [i \in 1..n |-> c]

\* a call that has not been made, or has not returned yet
NotCalled == [raised |-> "none", returned |-> FALSE, value |-> << >>]

\* the call raised the exception
Raised(exception) == [raised |-> exception, returned |-> FALSE, value |-> << >>]

\* the call returned the value
Returned(value) == [raised |-> "none", returned |-> TRUE, value |-> value]

\* a configuration with nothing in it
EmptyConfig ==
    [app_name |-> << >>, app_version |-> << >>, environment |-> << >>,
     debug |-> FALSE, log_level |-> << >>]

\* sanitize_input is not called on its own
NoSanitize ==
    /\ sanArg = [input_str |-> NonString, max_length |-> << >>,
                 strip_html |-> FALSE]
    /\ sanRet = NotCalled

\* is_sensitive_value is not called on its own
NoSensitive ==
    /\ sensArg = [key |-> << >>, value |-> << >>]
    /\ sensRet = [returned |-> FALSE, value |-> FALSE]

\* validate_config is not called on its own
NoValidate ==
    /\ confArg = EmptyConfig
    /\ confRet = "none"

\* a run of main_fallback that has not started, with the args given
NewRun(args) ==
    [pc |-> "start", args |-> args, exception |-> "none", exit_code |-> -1,
     greetings |-> 0, success_logged |-> FALSE]

\* main_fallback is not run
NoRun ==
    /\ env = [argv |-> "ok", config |-> EmptyConfig, log_file |-> TRUE]
    /\ run = [NewRun([name |-> << >>, list_greetings |-> FALSE])
                EXCEPT !.pc = "idle"]

\* no function of the module has been called on its own
InitPure == NoSanitize /\ NoSensitive /\ NoValidate

\* no get_multiple_greetings call has been made
InitMulti ==
    /\ names = << >>
    /\ greetings = << >>
    /\ passed = 0

----------------------------------------------------------------------------
(* RateLimiter                                                             *)

\* variant: the window taken for seconds
window_start_seconds(now) == now - window_ms * 1000

\* now - self.window_ms
window_start(now) == now - window_ms

\* variant: a timestamp exactly window_ms old is kept
valid_requests_inclusive(user_requests, now) ==
    SelectSeq(user_requests, LAMBDA t : t >= window_start(now))

\* [t for t in user_requests if t > window_start]
valid_requests(user_requests, now) ==
    SelectSeq(user_requests, LAMBDA t : t > window_start(now))

\* variant: the limit compared with > in place of >=
limit_reached_off_by_one(valid) == Len(valid) > max_requests

\* len(valid_requests) >= self.max_requests
limit_reached(valid) == Len(valid) >= max_requests

\* the list is_allowed reads: a missing identifier is first given []
user_requests_of(identifier) ==
    IF identifier \in DOMAIN requests THEN requests[identifier] ELSE << >>

\* variant: one list is shared by every identifier
store_under_every_key(identifier, value) ==
    [i \in DOMAIN requests \cup {identifier} |-> value]

\* self.requests[identifier] = value
store(identifier, value) ==
    [i \in DOMAIN requests \cup {identifier} |->
        IF i = identifier THEN value ELSE requests[i]]

\* variant: a refused call is recorded too
is_allowed_recording_denials(identifier) ==
    LET now == clock
        valid == valid_requests(user_requests_of(identifier), now)
        ret == ~limit_reached(valid)
    IN  /\ Len(history) < MaxCalls
        /\ requests' = store(identifier, Append(valid, now))
        /\ history' = Append(history, [id |-> identifier, t |-> now, ret |-> ret])
        /\ op' = "is_allowed"
        /\ arg' = identifier
        /\ allowed' = ret
        /\ UNCHANGED <<window_ms, max_requests, clock, remaining, raceVars, greetVars>>

\* what RateLimiter.is_allowed returns when it is called now
is_allowed_result(identifier) ==
    ~limit_reached(valid_requests(user_requests_of(identifier), clock))

\* self.requests once RateLimiter.is_allowed has run
requests_after_is_allowed(identifier) ==
    LET now == clock
        valid == valid_requests(user_requests_of(identifier), now)
    IN  store(identifier,
              IF limit_reached(valid) THEN valid ELSE Append(valid, now))

\* RateLimiter.is_allowed
is_allowed(identifier) ==
    /\ Len(history) < MaxCalls
    /\ requests' = requests_after_is_allowed(identifier)
    /\ history' = Append(history, [id |-> identifier, t |-> clock,
                                   ret |-> is_allowed_result(identifier)])
    /\ op' = "is_allowed"
    /\ arg' = identifier
    /\ allowed' = is_allowed_result(identifier)
    /\ UNCHANGED <<window_ms, max_requests, clock, remaining, raceVars, greetVars>>

\* the value RateLimiter.get_remaining_requests returns
remaining_requests(identifier) ==
    IF identifier \notin DOMAIN requests
    THEN max_requests
    ELSE Max(0, max_requests - Len(valid_requests(requests[identifier], clock)))

\* variant: the filtered list is stored back
get_remaining_requests_pruning(identifier) ==
    /\ remaining' = remaining_requests(identifier)
    /\ requests' = store(identifier,
                         valid_requests(user_requests_of(identifier), clock))
    /\ op' = "get_remaining_requests"
    /\ arg' = identifier
    /\ UNCHANGED <<window_ms, max_requests, clock, history, allowed, raceVars, greetVars>>

\* RateLimiter.get_remaining_requests
get_remaining_requests(identifier) ==
    /\ remaining' = remaining_requests(identifier)
    /\ op' = "get_remaining_requests"
    /\ arg' = identifier
    /\ UNCHANGED <<window_ms, max_requests, requests, clock, history, allowed,
                   raceVars, greetVars>>

\* time passes between two calls
Tick ==
    /\ clock < MaxTime
    /\ clock' = clock + 1
    /\ op' = "tick"
    /\ UNCHANGED <<window_ms, max_requests, requests, history, arg, allowed,
                   remaining, raceVars, greetVars>>

\* RateLimiter.__init__
Init ==
    /\ window_ms \in WindowChoices
    /\ max_requests \in MaxRequestsChoices
    /\ requests = << >>
    /\ clock = 0
    /\ history = << >>
    /\ op = "init"
    /\ arg = "u"
    /\ allowed = FALSE
    /\ remaining = 0
    /\ atomic = FALSE
    /\ holder = 0
    /\ heap = << >>
    /\ thr = [t \in Threads |-> IdleThread(0)]
    /\ app_name = << >>
    /\ greetArg = NonString
    /\ outcome = "none"
    /\ greeting = << >>
    /\ greetCalls = 0
    /\ InitMulti
    /\ InitPure
    /\ NoRun

Next ==
    \/ Tick
    \/ \E identifier \in Identifiers : is_allowed(identifier)
    \/ \E identifier \in Identifiers : get_remaining_requests(identifier)

Spec == Init /\ [][Next]_vars

----------------------------------------------------------------------------
(* RateLimiter.is_allowed called from the threads of a concurrent host.    *)
(* Each statement of the method is one step; lists are objects of the heap *)
(* and self.requests holds references to them.  With atomic set, the host  *)
(* runs the whole method under one global lock.                            *)

raceFrame == <<window_ms, max_requests, op, arg, allowed, remaining, atomic,
               greetVars>>

\* variant: the method is entered without waiting for the lock
begin_is_allowed_unlocked(t, identifier) ==
    /\ thr[t].pc = "idle"
    /\ thr[t].calls < MaxRaceCalls
    /\ holder' = IF atomic THEN t ELSE 0
    /\ thr' = [thr EXCEPT ![t].pc = "ensure_key",
                          ![t].identifier = identifier,
                          ![t].now = clock]
    /\ UNCHANGED <<raceFrame, requests, clock, history, heap>>

\* the call; now = time.time() * 1000; window_start = now - self.window_ms
begin_is_allowed(t, identifier) ==
    /\ thr[t].pc = "idle"
    /\ thr[t].calls < MaxRaceCalls
    /\ atomic => holder = 0
    /\ holder' = IF atomic THEN t ELSE 0
    /\ thr' = [thr EXCEPT ![t].pc = "ensure_key",
                          ![t].identifier = identifier,
                          ![t].now = clock]
    /\ UNCHANGED <<raceFrame, requests, clock, history, heap>>

\* if identifier not in self.requests: self.requests[identifier] = []
ensure_key(t) ==
    /\ thr[t].pc = "ensure_key"
    /\ IF thr[t].identifier \in DOMAIN requests
       THEN UNCHANGED <<requests, heap>>
       ELSE /\ heap' = Append(heap, << >>)
            /\ requests' = store(thr[t].identifier, Len(heap) + 1)
    /\ thr' = [thr EXCEPT ![t].pc = "read"]
    /\ UNCHANGED <<raceFrame, clock, history, holder>>

\* user_requests = self.requests[identifier]
read_user_requests(t) ==
    /\ thr[t].pc = "read"
    /\ thr' = [thr EXCEPT ![t].pc = "filter",
                          ![t].user_requests = requests[thr[t].identifier]]
    /\ UNCHANGED <<raceFrame, requests, clock, history, holder, heap>>

\* valid_requests = [t for t in user_requests if t > window_start]
filter_valid_requests(t) ==
    /\ thr[t].pc = "filter"
    /\ heap' = Append(heap, valid_requests(heap[thr[t].user_requests], thr[t].now))
    /\ thr' = [thr EXCEPT ![t].pc = "store",
                          ![t].valid_requests = Len(heap) + 1]
    /\ UNCHANGED <<raceFrame, requests, clock, history, holder>>

\* self.requests[identifier] = valid_requests
store_valid_requests(t) ==
    /\ thr[t].pc = "store"
    /\ requests' = store(thr[t].identifier, thr[t].valid_requests)
    /\ thr' = [thr EXCEPT ![t].pc = "check"]
    /\ UNCHANGED <<raceFrame, clock, history, holder, heap>>

\* if len(valid_requests) >= self.max_requests: return False
check_limit(t) ==
    /\ thr[t].pc = "check"
    /\ IF limit_reached(heap[thr[t].valid_requests])
       THEN /\ history' = Append(history, [id |-> thr[t].identifier,
                                           t |-> thr[t].now, ret |-> FALSE])
            /\ thr' = [thr EXCEPT ![t] = IdleThread(thr[t].calls + 1)]
            /\ holder' = 0
       ELSE /\ thr' = [thr EXCEPT ![t].pc = "append"]
            /\ UNCHANGED <<history, holder>>
    /\ UNCHANGED <<raceFrame, requests, clock, heap>>

\* valid_requests.append(now); return True
append_now(t) ==
    /\ thr[t].pc = "append"
    /\ heap' = [heap EXCEPT ![thr[t].valid_requests] = Append(@, thr[t].now)]
    /\ history' = Append(history, [id |-> thr[t].identifier,
                                   t |-> thr[t].now, ret |-> TRUE])
    /\ thr' = [thr EXCEPT ![t] = IdleThread(thr[t].calls + 1)]
    /\ holder' = 0
    /\ UNCHANGED <<raceFrame, requests, clock>>

\* time passes between two statements
RaceTick ==
    /\ clock < MaxRaceTime
    /\ clock' = clock + 1
    /\ UNCHANGED <<raceFrame, requests, history, holder, heap, thr>>

\* RateLimiter.__init__, and the host's choice of locking
InitRace ==
    /\ window_ms \in RaceWindowChoices
    /\ max_requests \in RaceMaxRequestsChoices
    /\ requests = << >>
    /\ clock = 0
    /\ history = << >>
    /\ op = "init"
    /\ arg = "u"
    /\ allowed = FALSE
    /\ remaining = 0
    /\ atomic \in BOOLEAN
    /\ holder = 0
    /\ heap = << >>
    /\ thr = [t \in Threads |-> IdleThread(0)]
    /\ app_name = << >>
    /\ greetArg = NonString
    /\ outcome = "none"
    /\ greeting = << >>
    /\ greetCalls = 0
    /\ InitMulti
    /\ InitPure
    /\ NoRun

NextRace ==
    \/ RaceTick
    \/ \E t \in Threads, identifier \in RaceIdentifiers :
          begin_is_allowed(t, identifier)
    \/ \E t \in Threads : ensure_key(t)
    \/ \E t \in Threads : read_user_requests(t)
    \/ \E t \in Threads : filter_valid_requests(t)
    \/ \E t \in Threads : store_valid_requests(t)
    \/ \E t \in Threads : check_limit(t)
    \/ \E t \in Threads : append_now(t)

SpecRace == InitRace /\ [][NextRace]_vars

----------------------------------------------------------------------------
(* sanitize_input.  A string is the sequence of its code points.           *)

\* the code points str.strip() and the regex class \s take for whitespace
IsSpace(c) ==
    c \in {9, 10, 11, 12, 13, 28, 29, 30, 31, 32, 133, 160, 5760,
           8232, 8233, 8239, 8287, 12288} \cup 8192..8202

\* the code points the regex class \w takes for word characters, among
\* those of the Basic Latin, Latin-1 and Latin Extended-A blocks
IsWord(c) ==
    \/ c \in 48..57 \/ c \in 65..90 \/ c \in 97..122 \/ c = 95
    \/ c \in {170, 178, 179, 181, 185, 186, 188, 189, 190}
    \/ c \in (192..383) \ {215, 247}
    \/ c = 8490

\* the lower-case letter re.IGNORECASE compares a code point as
FoldCase(c) ==
    IF c \in 65..90 THEN c + 32
    ELSE IF c = 383 THEN 115
    ELSE IF c \in {304, 305} THEN 105
    ELSE IF c = 8490 THEN 107
    ELSE c

Least(S) == CHOOSE x \in S : \A y \in S : x <= y
Greatest(S) == CHOOSE x \in S : \A y \in S : x >= y

\* input_str.strip()
strip(text) ==
    LET keep == {i \in 1..Len(text) : ~IsSpace(text[i])}
    IN  IF keep = {} THEN << >> ELSE SubSeq(text, Least(keep), Greatest(keep))

\* variant: DEL is kept
remove_control_characters_keeping_del(text) ==
    SelectSeq(text, LAMBDA c : ~(c \in 0..31))

\* re.sub(r"[\x00-\x1F\x7F]", "", sanitized)
remove_control_characters(text) ==
    SelectSeq(text, LAMBDA c : ~(c \in 0..31 \/ c = 127))

\* the literal lit, compared without case, stands at position i of text
LiteralAt(text, i, lit) ==
    /\ i + Len(lit) - 1 <= Len(text)
    /\ \A k \in 1..Len(lit) : FoldCase(text[i + k - 1]) = lit[k]

\* "<script" followed by a word boundary stands at position i
ScriptOpensAt(text, i) ==
    /\ LiteralAt(text, i, <<60, 115, 99, 114, 105, 112, 116>>)
    /\ (i + 7 > Len(text) \/ ~IsWord(text[i + 7]))

\* "</script>" stands at position j
ScriptClosesAt(text, j) ==
    LiteralAt(text, j, <<60, 47, 115, 99, 114, 105, 112, 116, 62>>)

\* re.sub(r"<script\b[^<]*(?:(?!<\/script>)<[^<]*)*<\/script>", "", ...,
\* flags=re.IGNORECASE) from position i on: a match runs from "<script" to
\* the first "</script>" after it, and the scan goes on behind the match
RECURSIVE remove_script_tags_from(_, _)
remove_script_tags_from(text, i) ==
    IF i > Len(text) THEN << >>
    ELSE LET closes == {j \in (i + 7)..Len(text) : ScriptClosesAt(text, j)}
         IN  IF ScriptOpensAt(text, i) /\ closes # {}
             THEN remove_script_tags_from(text, Least(closes) + 9)
             ELSE <<text[i]>> \o remove_script_tags_from(text, i + 1)

remove_script_tags(text) == remove_script_tags_from(text, 1)

\* re.sub(r"<[^>]*>", "", sanitized) from position i on: a match runs from
\* a "<" to the first ">" after it
RECURSIVE remove_html_tags_from(_, _)
remove_html_tags_from(text, i) ==
    IF i > Len(text) THEN << >>
    ELSE LET closes == {j \in (i + 1)..Len(text) : text[j] = 62}
         IN  IF text[i] = 60 /\ closes # {}
             THEN remove_html_tags_from(text, Least(closes) + 1)
             ELSE <<text[i]>> \o remove_html_tags_from(text, i + 1)

\* variant: only a "<" with no other "<" before its ">" opens a tag
RECURSIVE remove_innermost_tags_from(_, _)
remove_innermost_tags_from(text, i) ==
    IF i > Len(text) THEN << >>
    ELSE LET closes == {j \in (i + 1)..Len(text) : text[j] = 62}
             opens == {j \in (i + 1)..Len(text) : text[j] = 60}
         IN  IF /\ text[i] = 60
                /\ closes # {}
                /\ \A j \in opens : j > Least(closes)
             THEN remove_innermost_tags_from(text, Least(closes) + 1)
             ELSE <<text[i]>> \o remove_innermost_tags_from(text, i + 1)

remove_html_tags_innermost(text) == remove_innermost_tags_from(text, 1)

remove_html_tags(text) == remove_html_tags_from(text, 1)

\* if max_length and len(sanitized) > max_length: sanitized[:max_length]
\* max_length is << >> for None and <<n>> for the integer n
limit_length(text, max_length) ==
    IF max_length = << >> \/ max_length[1] = 0 \/ Len(text) <= max_length[1]
    THEN text
    ELSE IF max_length[1] > 0
         THEN SubSeq(text, 1, max_length[1])
         ELSE SubSeq(text, 1, Max(0, Len(text) + max_length[1]))

\* sanitize_input, for an input_str that is a str
sanitize_input(input_str, max_length, strip_html) ==
    LET stripped == strip(input_str)
        no_control == remove_control_characters(stripped)
        no_script == remove_script_tags(no_control)
        no_html == IF strip_html THEN remove_html_tags(no_script) ELSE no_script
    IN  limit_length(no_html, max_length)

\* variant: a TypeError for an input that is not a str
sanitize_input_call_type_error(input, max_length, strip_html) ==
    IF ~input.is_str THEN Raised("TypeError")
    ELSE Returned(sanitize_input(input.text, max_length, strip_html))

\* sanitize_input for any input: the isinstance check, then the steps above
sanitize_input_call(input, max_length, strip_html) ==
    IF ~input.is_str THEN Raised("ValueError")
    ELSE Returned(sanitize_input(input.text, max_length, strip_html))

\* the characters of the inputs: NUL, tab, space, "<", ">", "A", DEL
SanAlphabet == {0, 9, 32, 60, 62, 65, 127}

\* "<script>A</script>A", "A<SCRIPT >A</script >A</Script>", "<scripts>",
\* "A<b>A</b>", "<A<A>>A" and "A\x1f \x00"
SanLongTexts ==
    {<<60, 115, 99, 114, 105, 112, 116, 62, 65, 60, 47, 115, 99, 114, 105,
       112, 116, 62, 65>>,
     <<65, 60, 83, 67, 82, 73, 80, 84, 32, 62, 65, 60, 47, 115, 99, 114, 105,
       112, 116, 32, 62, 65, 60, 47, 83, 99, 114, 105, 112, 116, 62>>,
     <<60, 115, 99, 114, 105, 112, 116, 115, 62>>,
     <<65, 60, 98, 62, 65, 60, 47, 98, 62>>,
     <<60, 65, 60, 65, 62, 62, 65>>,
     <<65, 31, 32, 0>>}

\* every str of up to MaxSanLen characters, the longer ones, and a non-str
SanInputs ==
    {NonString} \cup
    {Str(text) : text \in SanLongTexts \cup
                    UNION {[1..n -> SanAlphabet] : n \in 0..MaxSanLen}}

\* max_length: None, 0, 1, 2 and -1
SanMaxLengths == {<< >>, <<0>>, <<1>>, <<2>>, <<-1>>}

\* the call sanitize_input(input_str, max_length, strip_html)
call_sanitize_input ==
    /\ sanRet = NotCalled
    /\ sanRet' = sanitize_input_call(sanArg.input_str, sanArg.max_length,
                                     sanArg.strip_html)
    /\ op' = "sanitize_input"
    /\ UNCHANGED <<window_ms, max_requests, requests, clock, history, arg,
                   allowed, remaining, raceVars, app_name, greetArg, outcome,
                   greeting, greetCalls, multiVars, sanArg, sensArg, sensRet,
                   confArg, confRet, mainVars>>

----------------------------------------------------------------------------
(* GreetingService.greet, on the module-level rate_limiter.                *)

DefaultWindowMs == 900000
DefaultMaxRequests == 100

\* the characters names are made of:
\* NUL, tab, newline, space, "'", "1", "<", ">", "A", no-break space
GreetAlphabet == {0, 9, 10, 32, 39, 49, 60, 62, 65, 160}

\* every string of up to MaxNameLen characters
ShortTexts == UNION {[1..n -> GreetAlphabet] : n \in 0..MaxNameLen}

\* names around the length limit of 50, and names with inner and outer
\* spaces, a hyphen, lower-case letters, a non-ASCII letter, control
\* characters, an inner no-break space or em space, and tags
LongTexts ==
    {Repeat(65, 49), Repeat(65, 50), Repeat(65, 51), Repeat(32, 50),
     Repeat(32, 51), Repeat(10, 51),
     Repeat(65, 48) \o <<32, 65>>, Repeat(65, 49) \o <<32, 32>>,
     <<32>> \o Repeat(65, 50), Repeat(65, 47) \o <<60, 65, 62, 65>>,
     <<65, 32, 65>>, <<32, 65, 32>>, <<65, 45, 65>>,
     <<79, 39, 67, 111, 110>>, <<65, 233>>, <<65, 9, 65>>, <<65, 0, 65>>,
     <<65, 160, 65>>, <<65, 8195, 65>>,
     <<65, 32, 0>>, <<60, 65, 62>>, <<60, 62, 65>>, <<65, 60, 49, 62>>,
     <<60, 98, 62, 65, 60, 47, 98, 62>>}

GreetInputs == {NonString} \cup {Str(text) : text \in ShortTexts \cup LongTexts}

\* "Test App" and "App"
AppNames == {<<84, 101, 115, 116, 32, 65, 112, 112>>, <<65, 112, 112>>}

\* identifier = "greet_function"
greet_identifier == "greet_function"

\* re.match(r"^[a-zA-Z\s\-']+$", sanitized_name)
name_pattern_matches(text) ==
    /\ Len(text) >= 1
    /\ \A i \in 1..Len(text) :
          \/ text[i] \in 65..90 \/ text[i] \in 97..122
          \/ IsSpace(text[i]) \/ text[i] = 45 \/ text[i] = 39

\* variant: the length check ahead of the emptiness check
greet_outcome_length_first(name, rate_ok) ==
    IF ~rate_ok THEN "rate_limit"
    ELSE IF ~name.is_str THEN "type"
    ELSE IF Len(name.text) > 50 THEN "length"
    ELSE IF strip(name.text) = << >> THEN "empty"
    ELSE IF \E i \in 1..Len(name.text) : name.text[i] \in {10, 9}
         THEN "newline_tab"
    ELSE LET sanitized_name == sanitize_input(name.text, <<50>>, TRUE)
         IN  IF sanitized_name = << >> THEN "empty_after_sanitization"
             ELSE IF Len(sanitized_name) < 1 THEN "length"
             ELSE IF ~name_pattern_matches(sanitized_name) THEN "charset"
             ELSE "ok"

\* variant: the length limit applied to the name after sanitization
greet_outcome_length_after_sanitization(name, rate_ok) ==
    IF ~rate_ok THEN "rate_limit"
    ELSE IF ~name.is_str THEN "type"
    ELSE IF strip(name.text) = << >> THEN "empty"
    ELSE IF \E i \in 1..Len(name.text) : name.text[i] \in {10, 9}
         THEN "newline_tab"
    ELSE LET sanitized_name == sanitize_input(name.text, << >>, TRUE)
         IN  IF sanitized_name = << >> THEN "empty_after_sanitization"
             ELSE IF Len(sanitized_name) > 50 THEN "length"
             ELSE IF ~name_pattern_matches(sanitized_name) THEN "charset"
             ELSE "ok"

\* the checks of greet in their order: "ok", or the error that is raised
\* (rate_ok is what rate_limiter.is_allowed returned)
greet_outcome(name, rate_ok) ==
    IF ~rate_ok THEN "rate_limit"
    ELSE IF ~name.is_str THEN "type"
    ELSE IF strip(name.text) = << >> THEN "empty"
    ELSE IF Len(name.text) > 50 THEN "length"
    ELSE IF \E i \in 1..Len(name.text) : name.text[i] \in {10, 9}
         THEN "newline_tab"
    ELSE LET sanitized_name == sanitize_input(name.text, <<50>>, TRUE)
         IN  IF sanitized_name = << >> THEN "empty_after_sanitization"
             ELSE IF Len(sanitized_name) < 1 THEN "length"
             ELSE IF ~name_pattern_matches(sanitized_name) THEN "charset"
             ELSE "ok"

\* variant: the greeting built from the name as given
greet_text_of_raw_name(name) ==
    <<72, 101, 108, 108, 111, 44, 32>> \o name.text
        \o <<33, 32, 87, 101, 108, 99, 111, 109, 101, 32, 116, 111, 32>>
        \o app_name

\* f"Hello, {sanitized_name}! Welcome to {self.config.app_name}"
greet_text(name) ==
    <<72, 101, 108, 108, 111, 44, 32>>
        \o sanitize_input(name.text, <<50>>, TRUE)
        \o <<33, 32, 87, 101, 108, 99, 111, 109, 101, 32, 116, 111, 32>>
        \o app_name

\* variant: only a name that passes validation takes a slot
greet_counting_valid_names(name) ==
    LET rate_ok == is_allowed_result(greet_identifier)
        result == greet_outcome(name, rate_ok)
    IN  /\ greetCalls < MaxGreetCalls
        /\ greetCalls' = greetCalls + 1
        /\ requests' = IF result = "ok"
                       THEN requests_after_is_allowed(greet_identifier)
                       ELSE requests
        /\ allowed' = rate_ok
        /\ op' = "greet"
        /\ arg' = greet_identifier
        /\ greetArg' = name
        /\ outcome' = result
        /\ greeting' = IF result = "ok" THEN greet_text(name) ELSE << >>
        /\ UNCHANGED <<window_ms, max_requests, clock, history, remaining,
                       app_name, raceVars, multiVars, pureVars, mainVars>>

\* GreetingService.greet
greet(name) ==
    LET rate_ok == is_allowed_result(greet_identifier)
        result == greet_outcome(name, rate_ok)
    IN  /\ greetCalls < MaxGreetCalls
        /\ greetCalls' = greetCalls + 1
        /\ requests' = requests_after_is_allowed(greet_identifier)
        /\ allowed' = rate_ok
        /\ op' = "greet"
        /\ arg' = greet_identifier
        /\ greetArg' = name
        /\ outcome' = result
        /\ greeting' = IF result = "ok" THEN greet_text(name) ELSE << >>
        /\ UNCHANGED <<window_ms, max_requests, clock, history, remaining,
                       app_name, raceVars, multiVars, pureVars, mainVars>>

\* a whole window passes between two greet calls
GreetTick ==
    /\ clock < MaxGreetTicks * window_ms
    /\ clock' = clock + window_ms
    /\ op' = "tick"
    /\ UNCHANGED <<window_ms, max_requests, requests, history, arg, allowed,
                   remaining, raceVars, greetVars>>

\* rate_limiter = RateLimiter() and GreetingService(config), fresh or after
\* max_requests - 1 or max_requests greet calls at time 0
InitGreet ==
    /\ window_ms = DefaultWindowMs
    /\ max_requests = DefaultMaxRequests
    /\ requests \in {<< >>} \cup
            {[i \in {greet_identifier} |-> Repeat(0, k)] :
                k \in {DefaultMaxRequests - 1, DefaultMaxRequests}}
    /\ clock = 0
    /\ history = << >>
    /\ op = "init"
    /\ arg = greet_identifier
    /\ allowed = FALSE
    /\ remaining = 0
    /\ atomic = FALSE
    /\ holder = 0
    /\ heap = << >>
    /\ thr = [t \in Threads |-> IdleThread(0)]
    /\ app_name \in AppNames
    /\ greetArg = NonString
    /\ outcome = "none"
    /\ greeting = << >>
    /\ greetCalls = 0
    /\ InitMulti
    /\ InitPure
    /\ NoRun

\* a behaviour greets one name, any number of times
NextGreet ==
    \/ GreetTick
    \/ IF greetCalls = 0
       THEN \E name \in GreetInputs : greet(name)
       ELSE greet(greetArg)

SpecGreet == InitGreet /\ [][NextGreet]_vars

----------------------------------------------------------------------------
(* GreetingService.get_multiple_greetings.  The calls of one list run at   *)
(* one reading of the clock.                                               *)

\* "", "A", " A", "Bob", "1" and a value that is not a str
MultiNames ==
    {NonString, Str(<< >>), Str(<<65>>), Str(<<32, 65>>), Str(<<66, 111, 98>>),
     Str(<<49>>)}

\* every list of up to MaxNames of these names
NameLists == UNION {[1..n -> MultiNames] : n \in 0..MaxNames}

\* variant: a name greet refuses is left out of the list
RECURSIVE greet_each_skipping_failures(_, _, _)
greet_each_skipping_failures(name_list, k, user_requests) ==
    IF k > Len(name_list)
    THEN [outcome |-> "ok", greetings |-> << >>, passed |-> Len(name_list),
          user_requests |-> user_requests]
    ELSE LET valid == valid_requests(user_requests, clock)
             rate_ok == ~limit_reached(valid)
             result == greet_outcome(name_list[k], rate_ok)
             rest == greet_each_skipping_failures(name_list, k + 1,
                         IF rate_ok THEN Append(valid, clock) ELSE valid)
         IN  IF result = "ok"
             THEN [rest EXCEPT !.greetings = <<greet_text(name_list[k])>> \o @]
             ELSE rest

\* [self.greet(name) for name in names] from the k-th name on, the list of
\* greet's identifier in the rate limiter being user_requests: each greet
\* runs is_allowed and its checks, and the first error ends the loop and
\* drops the greetings collected so far
RECURSIVE greet_each(_, _, _)
greet_each(name_list, k, user_requests) ==
    IF k > Len(name_list)
    THEN [outcome |-> "ok", greetings |-> << >>, passed |-> Len(name_list),
          user_requests |-> user_requests]
    ELSE LET valid == valid_requests(user_requests, clock)
             rate_ok == ~limit_reached(valid)
             after == IF rate_ok THEN Append(valid, clock) ELSE valid
             result == greet_outcome(name_list[k], rate_ok)
             rest == greet_each(name_list, k + 1, after)
         IN  IF result # "ok"
             THEN [outcome |-> result, greetings |-> << >>, passed |-> k,
                   user_requests |-> after]
             ELSE IF rest.outcome # "ok" THEN rest
             ELSE [rest EXCEPT !.greetings = <<greet_text(name_list[k])>> \o @]

\* variant: the list comprehension that skips the names greet refuses
get_multiple_greetings_skipping_failures(name_list) ==
    greet_each_skipping_failures(name_list, 1, user_requests_of(greet_identifier))

\* variant: a failed batch gives its slots back
get_multiple_greetings_rolling_back(name_list) ==
    LET result == greet_each(name_list, 1, user_requests_of(greet_identifier))
    IN  IF result.outcome = "ok" THEN result
        ELSE [result EXCEPT !.user_requests = user_requests_of(greet_identifier)]

\* what get_multiple_greetings does: its outcome, the list it returns, the
\* names it passed to greet and the rate limiter's list afterwards
get_multiple_greetings_result(name_list) ==
    greet_each(name_list, 1, user_requests_of(greet_identifier))

\* GreetingService.get_multiple_greetings
get_multiple_greetings(name_list) ==
    LET result == get_multiple_greetings_result(name_list)
    IN  /\ greetCalls < MaxGreetCalls
        /\ greetCalls' = greetCalls + 1
        /\ requests' = IF name_list = << >> THEN requests
                       ELSE store(greet_identifier, result.user_requests)
        /\ op' = "get_multiple_greetings"
        /\ arg' = greet_identifier
        /\ names' = name_list
        /\ outcome' = result.outcome
        /\ greetings' = result.greetings
        /\ passed' = result.passed
        /\ UNCHANGED <<window_ms, max_requests, clock, history, allowed,
                       remaining, app_name, greetArg, greeting, raceVars,
                       pureVars, mainVars>>

\* a behaviour greets one list, any number of times
NextGreetings ==
    \/ GreetTick
    \/ IF greetCalls = 0
       THEN \E name_list \in NameLists : get_multiple_greetings(name_list)
       ELSE get_multiple_greetings(names)

SpecGreetings == InitGreet /\ [][NextGreetings]_vars

----------------------------------------------------------------------------
(* is_sensitive_value                                                      *)

\* str.lower() on the code points of the inputs below: the ASCII capitals
\* become small letters, every other code point (the long s U+017F among
\* them) stays
lower(text) == [i \in 1..Len(text) |-> IF text[i] \in 65..90 THEN text[i] + 32
                                        ELSE text[i]]

\* str.upper() on the code points of the inputs: the ASCII small letters
\* and the long s become capitals
upper(text) == [i \in 1..Len(text) |-> IF text[i] \in 97..122 THEN text[i] - 32
                                        ELSE IF text[i] = 383 THEN 83
                                        ELSE text[i]]

\* word in text
contains(text, word) ==
    \E i \in 1..(Len(text) - Len(word) + 1) :
        SubSeq(text, i, i + Len(word) - 1) = word

\* variant: "credential" is not among the words
sensitive_keys_without_credential ==
    {<<112, 97, 115, 115, 119, 111, 114, 100>>, <<115, 101, 99, 114, 101, 116>>, <<107, 101, 121>>, <<116, 111, 107, 101, 110>>}

\* ["password", "secret", "key", "token", "credential"]
sensitive_keys ==
    {<<112, 97, 115, 115, 119, 111, 114, 100>>,
     <<115, 101, 99, 114, 101, 116>>,
     <<107, 101, 121>>,
     <<116, 111, 107, 101, 110>>,
     <<99, 114, 101, 100, 101, 110, 116, 105, 97, 108>>}

\* ["secret", "password", "token", "key"]
secret_indicators ==
    {<<115, 101, 99, 114, 101, 116>>, <<112, 97, 115, 115, 119, 111, 114, 100>>, <<116, 111, 107, 101, 110>>, <<107, 101, 121>>}

\* [a-zA-Z0-9+/=]
Base64Characters == (97..122) \cup (65..90) \cup (48..57) \cup {43, 47, 61}

\* [a-f0-9] under re.IGNORECASE
HexCharacters == (97..102) \cup (65..70) \cup (48..57)

\* the last position of the characters the class takes from position i on,
\* i - 1 when it takes none
RECURSIVE leading_run(_, _, _)
leading_run(text, class, i) ==
    IF i <= Len(text) /\ text[i] \in class
    THEN leading_run(text, class, i + 1)
    ELSE i - 1

\* re.compile(r"^[class]{least,}$").match(text): the class takes the
\* characters from the start, least or more of them, and "$" stands at the
\* end of text or before a newline that ends it
pattern_matches(text, class, least) ==
    LET taken == leading_run(text, class, 1)
    IN  /\ taken >= least
        /\ \/ taken = Len(text)
           \/ taken = Len(text) - 1 /\ text[Len(text)] = 10

\* is_sensitive_value
is_sensitive_value(key, value) ==
    LET lower_key == lower(key)
        lower_value == lower(value)
    IN  IF \E sensitive \in sensitive_keys : contains(lower_key, sensitive)
        THEN TRUE
        ELSE IF \/ pattern_matches(value, Base64Characters, 20)
                \/ pattern_matches(value, HexCharacters, 32)
        THEN TRUE
        ELSE IF \E indicator \in secret_indicators :
                    contains(lower_value, indicator)
        THEN TRUE
        ELSE FALSE

\* "X", "SOME_VAR", "API_KEY", "DB_PASSWORD", "JWT_SECRET", "PORT",
\* "APP_NAME", "HASH", "Token", "credentials", "monkey", "secret" with a
\* long s, "SECRET", "kEy" and ""
SensKeys ==
    {<<88>>,
     <<83, 79, 77, 69, 95, 86, 65, 82>>,
     <<65, 80, 73, 95, 75, 69, 89>>,
     <<68, 66, 95, 80, 65, 83, 83, 87, 79, 82, 68>>,
     <<74, 87, 84, 95, 83, 69, 67, 82, 69, 84>>,
     <<80, 79, 82, 84>>,
     <<65, 80, 80, 95, 78, 65, 77, 69>>,
     <<72, 65, 83, 72>>,
     <<84, 111, 107, 101, 110>>,
     <<99, 114, 101, 100, 101, 110, 116, 105, 97, 108, 115>>,
     <<109, 111, 110, 107, 101, 121>>,
     <<383, 101, 99, 114, 101, 116>>,
     <<83, 69, 67, 82, 69, 84>>,
     <<107, 69, 121>>,
     <<>>}

\* the characters of the short values: "k", "e", "y", "K", newline, "-"
SensAlphabet == {107, 101, 121, 75, 10, 45}

\* values around the lengths of 20 and 32: letters, hex digits, with a
\* character outside the class, with one and two newlines at the end
SensLongValues ==
    {Repeat(65, 19), Repeat(65, 20), Repeat(122, 21), Repeat(43, 20),
     Repeat(65, 19) \o <<45>>, Repeat(65, 20) \o <<10>>,
     Repeat(65, 19) \o <<10>>, Repeat(65, 20) \o <<10, 10>>,
     <<10>> \o Repeat(65, 20), Repeat(65, 20) \o <<32>>,
     Repeat(102, 31), Repeat(102, 32), Repeat(70, 32), Repeat(57, 33),
     Repeat(102, 32) \o <<10>>, Repeat(102, 31) \o <<45>>}

\* "SGVsbG8gV29ybGQ=", "My App", "3000", "secret123", "x", "token",
\* "xTOKENx", "PassWord", "secret" with a long s and "SECRET"
SensNamedValues ==
    {<<83, 71, 86, 115, 98, 71, 56, 103, 86, 50, 57, 121, 98, 71, 81, 61>>,
     <<77, 121, 32, 65, 112, 112>>,
     <<51, 48, 48, 48>>,
     <<115, 101, 99, 114, 101, 116, 49, 50, 51>>,
     <<120>>,
     <<116, 111, 107, 101, 110>>,
     <<120, 84, 79, 75, 69, 78, 120>>,
     <<80, 97, 115, 115, 87, 111, 114, 100>>,
     <<383, 101, 99, 114, 101, 116>>,
     <<83, 69, 67, 82, 69, 84>>}

\* every value of up to MaxSensLen characters, and the values above
SensValues ==
    SensLongValues \cup SensNamedValues \cup
    UNION {[1..n -> SensAlphabet] : n \in 0..MaxSensLen}

\* the call is_sensitive_value(key, value)
call_is_sensitive_value ==
    /\ ~sensRet.returned
    /\ sensRet' = [returned |-> TRUE,
                   value |-> is_sensitive_value(sensArg.key, sensArg.value)]
    /\ op' = "is_sensitive_value"
    /\ UNCHANGED <<window_ms, max_requests, requests, clock, history, arg,
                   allowed, remaining, raceVars, app_name, greetArg, outcome,
                   greeting, greetCalls, multiVars, sanArg, sanRet, sensArg,
                   confArg, confRet, mainVars>>

----------------------------------------------------------------------------
(* validate_config                                                         *)

\* ["DEBUG", "INFO", "WARNING", "ERROR", "CRITICAL"]
valid_log_levels ==
    {<<68, 69, 66, 85, 71>>,
     <<73, 78, 70, 79>>,
     <<87, 65, 82, 78, 73, 78, 71>>,
     <<69, 82, 82, 79, 82>>,
     <<67, 82, 73, 84, 73, 67, 65, 76>>}

\* ["development", "staging", "production"]
valid_environments ==
    {<<100, 101, 118, 101, 108, 111, 112, 109, 101, 110, 116>>,
     <<115, 116, 97, 103, 105, 110, 103>>,
     <<112, 114, 111, 100, 117, 99, 116, 105, 111, 110>>}

\* \d: the ASCII digits, and the Arabic-Indic digits among the decimal
\* digits of other scripts
Digits == (48..57) \cup (1632..1641)

\* "$" after position p: the end of text, or a newline that ends it
AtEnd(text, p) ==
    p = Len(text) \/ (p = Len(text) - 1 /\ text[Len(text)] = 10)

\* re.match(r"^\d+\.\d+(\.\d+)?$", config.app_version): digits, a dot,
\* digits, then the end, or a dot and digits and the end
version_matches(text) ==
    LET major == leading_run(text, Digits, 1)
        minor == leading_run(text, Digits, major + 2)
        patch == leading_run(text, Digits, minor + 2)
    IN  /\ major >= 1
        /\ major < Len(text) /\ text[major + 1] = 46
        /\ minor >= major + 2
        /\ \/ AtEnd(text, minor)
           \/ /\ minor < Len(text) /\ text[minor + 1] = 46
              /\ patch >= minor + 2
              /\ AtEnd(text, patch)

\* validate_config: "ok" when it returns, else the check whose
\* ConfigurationError it raises
validate_config(config) ==
    IF upper(config.log_level) \notin valid_log_levels THEN "log_level"
    ELSE IF strip(config.app_name) = << >> THEN "app_name"
    ELSE IF strip(config.app_version) = << >> THEN "app_version_empty"
    ELSE IF ~version_matches(config.app_version) THEN "app_version_format"
    ELSE IF lower(config.environment) \notin valid_environments
    THEN "environment"
    ELSE "ok"

\* the characters of the short versions: "1", ".", "a", newline
VersionAlphabet == {49, 46, 97, 10}

\* "1.0.0.0", "1.0.0-beta", "v1.0.0", "1.0.0a", "0.0.1", "10.20.30",
\* "999.999.999", "   ", " 1.0.0", "1.0.0 ", "1.0.0" in Arabic-Indic digits,
\* "1..0" and "01.002.0003"
NamedVersions ==
    {<<49, 46, 48, 46, 48, 46, 48>>,
     <<49, 46, 48, 46, 48, 45, 98, 101, 116, 97>>,
     <<118, 49, 46, 48, 46, 48>>,
     <<49, 46, 48, 46, 48, 97>>,
     <<48, 46, 48, 46, 49>>,
     <<49, 48, 46, 50, 48, 46, 51, 48>>,
     <<57, 57, 57, 46, 57, 57, 57, 46, 57, 57, 57>>,
     <<32, 32, 32>>,
     <<32, 49, 46, 48, 46, 48>>,
     <<49, 46, 48, 46, 48, 32>>,
     <<1633, 46, 1632, 46, 1632>>,
     <<49, 46, 46, 48>>,
     <<48, 49, 46, 48, 48, 50, 46, 48, 48, 48, 51>>}

\* every version of up to MaxVersionLen characters, and the versions above
Versions ==
    NamedVersions \cup UNION {[1..n -> VersionAlphabet] : n \in 0..MaxVersionLen}

\* configurations: names "Test" and " ", environments "development",
\* "Production" and "invalid", log levels "INFO", "debug" and "verbose"
Configs ==
    [app_name : {<<84, 101, 115, 116>>, <<32>>},
     app_version : Versions,
     environment : {<<100, 101, 118, 101, 108, 111, 112, 109, 101, 110, 116>>,
                    <<80, 114, 111, 100, 117, 99, 116, 105, 111, 110>>,
                    <<105, 110, 118, 97, 108, 105, 100>>},
     debug : {FALSE},
     log_level : {<<73, 78, 70, 79>>,
                  <<100, 101, 98, 117, 103>>,
                  <<118, 101, 114, 98, 111, 115, 101>>}]

\* the call validate_config(config)
call_validate_config ==
    /\ confRet = "none"
    /\ confRet' = validate_config(confArg)
    /\ op' = "validate_config"
    /\ UNCHANGED <<window_ms, max_requests, requests, clock, history, arg,
                   allowed, remaining, raceVars, app_name, greetArg, outcome,
                   greeting, greetCalls, multiVars, sanArg, sanRet, sensArg,
                   sensRet, confArg, mainVars>>

----------------------------------------------------------------------------
(* main_fallback, the entry point without typer.  The run is taken step by *)
(* step, so that Ctrl-C can arrive between any two steps.                  *)

\* load_configuration: the AppConfig read from the environment is
\* validated, and every error of the validation leaves as ConfigurationError
load_configuration(config) ==
    IF validate_config(config) = "ok" THEN "ok" ELSE "ConfigurationError"

\* variant: the handler of KeyboardInterrupt exits with 1
except_clause_interrupt_fails(exception) ==
    IF exception \in {"KeyboardInterrupt", "ConfigurationError", "ValueError",
                      "ImportError", "OSError", "RuntimeError", "SystemError"}
    THEN 1 ELSE -1

\* the except clauses of main_fallback: the code its handler of the
\* exception passes to sys.exit, -1 when no clause catches the exception
except_clause(exception) ==
    IF exception = "KeyboardInterrupt" THEN 0
    ELSE IF exception \in {"ConfigurationError", "ValueError"} THEN 1
    ELSE IF exception = "ImportError" THEN 1
    ELSE IF exception \in {"OSError", "RuntimeError", "SystemError"} THEN 1
    ELSE -1

\* the run ends with the exception and the exit code
ended(r, exception, code) ==
    [r EXCEPT !.pc = "exited", !.exception = exception, !.exit_code = code]

\* the exception is raised inside the try block of main_fallback
raised_in_main(r, exception) == ended(r, exception, except_clause(exception))

\* one step of the run; nothing but the run and the rate limiter's lists
\* and the service's app_name changes
mainFrame ==
    <<window_ms, max_requests, clock, history, op, arg, allowed, remaining,
      raceVars, greetArg, outcome, greeting, greetCalls, multiVars, pureVars,
      env>>

\* args = parse_arguments(): argparse returns the args, or leaves through
\* sys.exit with 2 for a command line it rejects and with 0 for --help
main_parse_arguments ==
    /\ run.pc = "start"
    /\ run' = CASE env.argv = "ok" -> [run EXCEPT !.pc = "parsed"]
                [] env.argv = "usage_error" -> ended(run, "SystemExit", 2)
                [] env.argv = "help" -> ended(run, "SystemExit", 0)
    /\ UNCHANGED <<mainFrame, requests, app_name>>

\* config = load_configuration()
main_load_configuration ==
    /\ run.pc = "parsed"
    /\ run' = IF load_configuration(env.config) = "ok"
              THEN [run EXCEPT !.pc = "configured"]
              ELSE raised_in_main(run, "ConfigurationError")
    /\ UNCHANGED <<mainFrame, requests, app_name>>

\* setup_logging(config), which opens app.log unless config.debug is set,
\* then log_startup_info(config) and the two services
main_setup_logging ==
    /\ run.pc = "configured"
    /\ IF ~env.config.debug /\ ~env.log_file
       THEN /\ run' = raised_in_main(run, "OSError")
            /\ UNCHANGED app_name
       ELSE /\ run' = [run EXCEPT !.pc = "ready"]
            /\ app_name' = env.config.app_name
    /\ UNCHANGED <<mainFrame, requests>>

\* demonstrate_features: greeting = greeting_service.greet(args.name)
main_greet ==
    LET rate_ok == is_allowed_result(greet_identifier)
        result == greet_outcome(Str(run.args.name), rate_ok)
    IN  /\ run.pc = "ready"
        /\ requests' = requests_after_is_allowed(greet_identifier)
        /\ run' = IF result = "ok"
                  THEN [run EXCEPT !.pc = "greeted", !.greetings = @ + 1]
                  ELSE raised_in_main(run, "ValueError")
        /\ UNCHANGED <<mainFrame, app_name>>

\* ["Alice", "Bob", "Charlie", "Diana"]
demo_names ==
    <<Str(<<65, 108, 105, 99, 101>>), Str(<<66, 111, 98>>),
      Str(<<67, 104, 97, 114, 108, 105, 101>>),
      Str(<<68, 105, 97, 110, 97>>)>>

\* demonstrate_features: if args.list_greetings, get_multiple_greetings(names)
main_list_greetings ==
    LET result == get_multiple_greetings_result(demo_names)
    IN  /\ run.pc = "greeted"
        /\ IF ~run.args.list_greetings
           THEN /\ run' = [run EXCEPT !.pc = "listed"]
                /\ UNCHANGED requests
           ELSE /\ requests' = store(greet_identifier, result.user_requests)
                /\ run' = IF result.outcome = "ok"
                          THEN [run EXCEPT !.pc = "listed",
                                           !.greetings = @ + Len(demo_names)]
                          ELSE raised_in_main(run, "ValueError")
        /\ UNCHANGED <<mainFrame, app_name>>

\* the app info is logged, then "Application completed successfully!", and
\* main_fallback returns
main_complete ==
    /\ run.pc = "listed"
    /\ run' = [run EXCEPT !.pc = "done", !.success_logged = TRUE]
    /\ UNCHANGED <<mainFrame, requests, app_name>>

\* Ctrl-C while the try block runs
main_interrupt ==
    /\ run.pc \in {"start", "parsed", "configured", "ready", "greeted", "listed"}
    /\ run' = raised_in_main(run, "KeyboardInterrupt")
    /\ UNCHANGED <<mainFrame, requests, app_name>>

\* the defaults, the defaults with DEBUG=true, APP_ENV=test, APP_NAME=""
\* and APP_VERSION=1.0
MainConfigs ==
    {[app_name |-> <<80, 114, 111, 106, 101, 99, 116, 32, 84, 101, 109, 112, 108, 97, 116, 101>>,
      app_version |-> <<49, 46, 48, 46, 48>>,
      environment |-> <<100, 101, 118, 101, 108, 111, 112, 109, 101, 110, 116>>,
      debug |-> FALSE, log_level |-> <<73, 78, 70, 79>>],
     [app_name |-> <<80, 114, 111, 106, 101, 99, 116, 32, 84, 101, 109, 112, 108, 97, 116, 101>>,
      app_version |-> <<49, 46, 48, 46, 48>>,
      environment |-> <<100, 101, 118, 101, 108, 111, 112, 109, 101, 110, 116>>,
      debug |-> TRUE, log_level |-> <<73, 78, 70, 79>>],
     [app_name |-> <<84, 101, 115, 116>>,
      app_version |-> <<49, 46, 48, 46, 48>>,
      environment |-> <<116, 101, 115, 116>>,
      debug |-> FALSE, log_level |-> <<73, 78, 70, 79>>],
     [app_name |-> <<>>,
      app_version |-> <<49, 46, 48, 46, 48>>,
      environment |-> <<100, 101, 118, 101, 108, 111, 112, 109, 101, 110, 116>>,
      debug |-> FALSE, log_level |-> <<73, 78, 70, 79>>],
     [app_name |-> <<84, 101, 115, 116>>,
      app_version |-> <<49, 46, 48>>,
      environment |-> <<112, 114, 111, 100, 117, 99, 116, 105, 111, 110>>,
      debug |-> FALSE, log_level |-> <<100, 101, 98, 117, 103>>]}

\* --name: "Developer", "", "Alice123" and "Test User"
MainNames ==
    {<<68, 101, 118, 101, 108, 111, 112, 101, 114>>, << >>,
     <<65, 108, 105, 99, 101, 49, 50, 51>>,
     <<84, 101, 115, 116, 32, 85, 115, 101, 114>>}

----------------------------------------------------------------------------
(* The functions of the module called on their own, the module-level       *)
(* rate_limiter untouched.                                                 *)

\* the module has been imported and nothing has been called
ModuleLoaded ==
    /\ window_ms = DefaultWindowMs
    /\ max_requests = DefaultMaxRequests
    /\ requests = << >>
    /\ clock = 0
    /\ history = << >>
    /\ op = "init"
    /\ arg = greet_identifier
    /\ allowed = FALSE
    /\ remaining = 0
    /\ atomic = FALSE
    /\ holder = 0
    /\ heap = << >>
    /\ thr = [t \in Threads |-> IdleThread(0)]
    /\ app_name = << >>
    /\ greetArg = NonString
    /\ outcome = "none"
    /\ greeting = << >>
    /\ greetCalls = 0
    /\ InitMulti

\* sanitize_input is about to be called with any of the arguments
InitSanitize ==
    /\ ModuleLoaded
    /\ sanArg \in [input_str : SanInputs, max_length : SanMaxLengths,
                    strip_html : BOOLEAN]
    /\ sanRet = NotCalled
    /\ NoSensitive
    /\ NoValidate
    /\ NoRun

NextSanitize == call_sanitize_input

SpecSanitize == InitSanitize /\ [][NextSanitize]_vars

\* is_sensitive_value is about to be called with any of the arguments
InitSensitive ==
    /\ ModuleLoaded
    /\ NoSanitize
    /\ NoValidate
    /\ sensArg \in [key : SensKeys, value : SensValues]
    /\ sensRet = [returned |-> FALSE, value |-> FALSE]
    /\ NoRun

NextSensitive == call_is_sensitive_value

SpecSensitive == InitSensitive /\ [][NextSensitive]_vars

\* validate_config is about to be called with any of the configurations
InitValidate ==
    /\ ModuleLoaded
    /\ NoSanitize
    /\ NoSensitive
    /\ confArg \in Configs
    /\ confRet = "none"
    /\ NoRun

NextValidate == call_validate_config

SpecValidate == InitValidate /\ [][NextValidate]_vars

\* main_fallback is about to run, in a process whose rate limiter is fresh
\* or has recorded max_requests - 1 or max_requests greet calls at time 0
InitMain ==
    /\ window_ms = DefaultWindowMs
    /\ max_requests = DefaultMaxRequests
    /\ requests \in {<< >>} \cup
            {[i \in {greet_identifier} |-> Repeat(0, k)] :
                k \in {DefaultMaxRequests - 1, DefaultMaxRequests}}
    /\ clock = 0
    /\ history = << >>
    /\ op = "init"
    /\ arg = greet_identifier
    /\ allowed = FALSE
    /\ remaining = 0
    /\ atomic = FALSE
    /\ holder = 0
    /\ heap = << >>
    /\ thr = [t \in Threads |-> IdleThread(0)]
    /\ app_name = << >>
    /\ greetArg = NonString
    /\ outcome = "none"
    /\ greeting = << >>
    /\ greetCalls = 0
    /\ InitMulti
    /\ InitPure
    /\ env \in [argv : {"ok", "usage_error", "help"}, config : MainConfigs,
                 log_file : BOOLEAN]
    /\ \E args \in [name : MainNames, list_greetings : BOOLEAN] :
          run = NewRun(args)

NextMain ==
    \/ main_parse_arguments
    \/ main_load_configuration
    \/ main_setup_logging
    \/ main_greet
    \/ main_list_greetings
    \/ main_complete
    \/ main_interrupt

SpecMain == InitMain /\ [][NextMain]_vars

----------------------------------------------------------------------------
(* Helpers of the properties below.                                        *)

\* the timestamps stored for id, none when id is not a key of the mapping
StoredTimestamps(id) ==
    IF id \in DOMAIN requests THEN requests[id] ELSE << >>

\* how many of the timestamps of list are strictly greater than bound
CountAfter(list, bound) ==
    Cardinality({i \in 1..Len(list) : list[i] > bound})

\* the is_allowed calls made for id, in call order
CallsOf(id) == SelectSeq(history, LAMBDA h : h.id = id)

\* admitted calls of id with a timestamp in (now - window_ms, now]
AdmittedInWindow(id, now) ==
    Cardinality({i \in 1..Len(history) :
                    /\ history[i].id = id
                    /\ history[i].ret
                    /\ history[i].t > now - window_ms
                    /\ history[i].t <= now})

\* would is_allowed(id) return true if it were called now
WouldAllow(id) == CountAfter(StoredTimestamps(id), clock - window_ms) < max_requests

----------------------------------------------------------------------------
(* C1: with max_requests >= 0 and a non-decreasing clock, at most          *)
(* max_requests admitted is_allowed calls of any identifier have a         *)
(* timestamp in the trailing window (now - window_ms, now].                *)
C1_SlidingWindowBound ==
    max_requests >= 0 =>
        \A id \in Identifiers : AdmittedInWindow(id, clock) <= max_requests

\* the window is full, a call was refused, and an older admission has expired
C1_Witness ==
    \E id \in Identifiers :
        /\ max_requests >= 1
        /\ AdmittedInWindow(id, clock) = max_requests
        /\ \E i \in 1..Len(history) : history[i].id = id /\ ~history[i].ret
        /\ \E i \in 1..Len(history) :
              history[i].id = id /\ history[i].ret /\ history[i].t <= clock - window_ms

(* C2: an is_allowed(id) call returns false exactly when the number of     *)
(* stored timestamps of id strictly greater than now - window_ms is        *)
(* >= max_requests, and then stores the pruned list with no new timestamp; *)
(* otherwise it returns true and stores the pruned list with now appended. *)
C2_IsAllowedDecision ==
    [][Len(history') = Len(history) + 1 =>
        LET id == arg'
            before == StoredTimestamps(id)
            pruned == SelectSeq(before, LAMBDA t : t > clock - window_ms)
        IN  IF CountAfter(before, clock - window_ms) >= max_requests
            THEN allowed' = FALSE /\ requests'[id] = pruned
            ELSE allowed' = TRUE /\ requests'[id] = Append(pruned, clock)]_vars

\* one identifier has been both admitted and refused, and an expired entry
\* of it has been pruned
C2_Witness ==
    \E id \in Identifiers :
        /\ \E i \in 1..Len(history) : history[i].id = id /\ ~history[i].ret
        /\ \E i \in 1..Len(history) :
              /\ history[i].id = id /\ history[i].ret
              /\ \A k \in 1..Len(StoredTimestamps(id)) :
                    StoredTimestamps(id)[k] # history[i].t
        /\ op = "is_allowed" /\ arg = id /\ allowed

(* C3: on a fresh limiter with max_requests = N >= 1, as long as every     *)
(* is_allowed call of an identifier and the present moment lie in one      *)
(* window, the first N calls returned true and every later one false, and  *)
(* get_remaining_requests returns N - k after k admitted calls (N before   *)
(* any call).                                                              *)
C3_FreshLimiterBudget ==
    max_requests >= 1 =>
        \A id \in Identifiers :
            LET c == CallsOf(id)
                k == IF Len(c) <= max_requests THEN Len(c) ELSE max_requests
            IN  (Len(c) = 0 \/ clock < c[1].t + window_ms) =>
                    /\ \A n \in 1..Len(c) : c[n].ret = (n <= max_requests)
                    /\ (op = "get_remaining_requests" /\ arg = id) =>
                            remaining = max_requests - k

\* N + 1 calls in one window, the last refused, and remaining read as 0
C3_Witness ==
    \E id \in Identifiers :
        LET c == CallsOf(id)
        IN  /\ max_requests = 2
            /\ Len(c) = max_requests + 1
            /\ clock < c[1].t + window_ms
            /\ ~c[Len(c)].ret
            /\ op = "get_remaining_requests" /\ arg = id /\ remaining = 0

(* C4 as stated: right after an is_allowed or a get_remaining_requests     *)
(* call for an identifier at time now, every timestamp stored for it lies  *)
(* in [now - window_ms, now].                                              *)
C4_PrunedAfterAnyRead ==
    op \in {"is_allowed", "get_remaining_requests"} =>
        \A k \in 1..Len(StoredTimestamps(arg)) :
            /\ StoredTimestamps(arg)[k] >= clock - window_ms
            /\ StoredTimestamps(arg)[k] <= clock

(* C4 amended: right after an is_allowed call for an identifier at time    *)
(* now, every timestamp stored for it lies in [now - window_ms, now].      *)
C4_PrunedAfterIsAllowed ==
    op = "is_allowed" =>
        \A k \in 1..Len(StoredTimestamps(arg)) :
            /\ StoredTimestamps(arg)[k] >= clock - window_ms
            /\ StoredTimestamps(arg)[k] <= clock

\* an is_allowed call that has just dropped an expired timestamp
C4_Witness ==
    /\ op = "is_allowed"
    /\ Len(StoredTimestamps(arg)) > 0
    /\ \E i \in 1..Len(history) :
          /\ history[i].id = arg /\ history[i].ret
          /\ history[i].t < clock - window_ms

(* C5: a get_remaining_requests call leaves the mapping as it was (the     *)
(* same identifiers, the same lists), so it never changes what a later     *)
(* is_allowed at the same time returns.                                    *)
C5_GetRemainingRecordsNothing ==
    [][op' = "get_remaining_requests" =>
        /\ requests' = requests
        /\ \A id \in Identifiers : WouldAllow(id)' = WouldAllow(id)]_vars

\* get_remaining_requests has just run for an identifier whose stored list
\* holds an expired timestamp, while another identifier is still unknown
C5_Witness ==
    /\ op = "get_remaining_requests"
    /\ arg \in DOMAIN requests
    /\ \E k \in 1..Len(requests[arg]) : requests[arg][k] <= clock - window_ms
    /\ DOMAIN requests # Identifiers

(* C6 as stated: for every max_requests, get_remaining_requests of an      *)
(* identifier that is not in the mapping returns max(0, max_requests - 0), *)
(* the value it returns for an identifier with an empty list, and the      *)
(* first is_allowed of an identifier is decided as for an empty list.      *)
C6_UnknownIsEmpty ==
    /\ (op = "get_remaining_requests" /\ Len(StoredTimestamps(arg)) = 0) =>
            remaining = Max(0, max_requests - 0)
    /\ \A id \in Identifiers :
            Len(CallsOf(id)) > 0 => CallsOf(id)[1].ret = (0 < max_requests)

(* C7 as stated: with max_requests >= 1, once is_allowed(id) returned      *)
(* false at time t, every is_allowed(id) call at a time >= t + window_ms   *)
(* returns true.                                                           *)
C7_AllowedAfterWindow ==
    max_requests >= 1 =>
        \A i, j \in 1..Len(history) :
            (/\ i < j
             /\ history[i].id = history[j].id
             /\ ~history[i].ret
             /\ history[j].t >= history[i].t + window_ms) => history[j].ret

(* C7 amended: with max_requests >= 1, once is_allowed(id) returned false  *)
(* at time t, an is_allowed(id) call at a time >= t + window_ms returns    *)
(* true provided no is_allowed(id) call was admitted in between.           *)
C7_AllowedAfterWindowIfIdle ==
    max_requests >= 1 =>
        \A i, j \in 1..Len(history) :
            (/\ i < j
             /\ history[i].id = history[j].id
             /\ ~history[i].ret
             /\ history[j].t >= history[i].t + window_ms
             /\ \A k \in (i + 1)..(j - 1) :
                   ~(history[k].id = history[i].id /\ history[k].ret))
            => history[j].ret

\* a refusal, then the next admitted call of the identifier a window later
C7_Witness ==
    \E i, j \in 1..Len(history) :
        /\ max_requests >= 1
        /\ i < j
        /\ history[i].id = history[j].id
        /\ ~history[i].ret
        /\ history[j].t >= history[i].t + window_ms
        /\ \A k \in (i + 1)..(j - 1) :
              ~(history[k].id = history[i].id /\ history[k].ret)
        /\ history[j].ret

(* C8: when the statements of two is_allowed calls for one identifier      *)
(* interleave, more than max_requests calls can be admitted in one window  *)
(* (and an append is lost); when the host runs the whole method as one     *)
(* critical section, at most max_requests are.                             *)
C8_AtomicSectionKeepsBound ==
    atomic =>
        \A id \in RaceIdentifiers : AdmittedInWindow(id, clock) <= max_requests

\* without the lock: more admitted calls in the window than max_requests,
\* and fewer timestamps stored than calls admitted
C8_Witness ==
    \E id \in RaceIdentifiers :
        /\ ~atomic
        /\ \A t \in Threads : thr[t].pc = "idle"
        /\ AdmittedInWindow(id, clock) > max_requests
        /\ Len(heap[requests[id]]) < AdmittedInWindow(id, clock)

----------------------------------------------------------------------------
(* Helpers of the properties of greet.                                     *)

\* the checks of greet, in the order the errors are to be reported
CheckOrder ==
    <<"rate_limit", "type", "empty", "length", "newline_tab",
      "empty_after_sanitization", "charset">>

\* name violates the check, the rate limiter being in its present state
Violates(check, name) ==
    CASE check = "rate_limit" -> ~WouldAllow(greet_identifier)
      [] check = "type" -> ~name.is_str
      [] check = "empty" ->
            name.is_str /\ \A i \in 1..Len(name.text) : IsSpace(name.text[i])
      [] check = "length" -> name.is_str /\ Len(name.text) > 50
      [] check = "newline_tab" ->
            name.is_str /\ \E i \in 1..Len(name.text) : name.text[i] \in {9, 10}
      [] check = "empty_after_sanitization" ->
            name.is_str /\ sanitize_input(name.text, <<50>>, TRUE) = << >>
      [] check = "charset" ->
            name.is_str /\ ~name_pattern_matches(sanitize_input(name.text, <<50>>, TRUE))

\* the first check of CheckOrder that name violates, "ok" when there is none
FirstViolated(name) ==
    LET bad == {k \in 1..Len(CheckOrder) : Violates(CheckOrder[k], name)}
    IN  IF bad = {} THEN "ok" ELSE CheckOrder[Least(bad)]

\* letters, inner spaces, hyphens and apostrophes only, 1 to 50 characters
PlainName(name) ==
    /\ name.is_str
    /\ Len(name.text) \in 1..50
    /\ \A i \in 1..Len(name.text) :
          \/ name.text[i] \in 65..90 \/ name.text[i] \in 97..122
          \/ name.text[i] \in {32, 45, 39}
    /\ name.text[1] # 32
    /\ name.text[Len(name.text)] # 32

\* "Hello, {n}! Welcome to {app}"
Greeting(n, app) ==
    <<72, 101, 108, 108, 111, 44, 32>> \o n
        \o <<33, 32, 87, 101, 108, 99, 111, 109, 101, 32, 116, 111, 32>> \o app

(* C9: greet raises the error of the first violated check in the order     *)
(* rate limit, type, emptiness, length, newline/tab, emptiness after       *)
(* sanitization, charset, and succeeds when no check is violated.          *)
C9_FirstViolatedCheckIsReported ==
    [][op' = "greet" => outcome' = FirstViolated(greetArg')]_vars

\* a whitespace-only name of more than 50 characters was refused as empty
C9_Witness ==
    /\ op = "greet"
    /\ outcome = "empty"
    /\ Len(greetArg.text) > 50
    /\ \E i \in 1..Len(greetArg.text) : greetArg.text[i] = 10

(* C10: a greet that succeeds returns "Hello, {n}! Welcome to {app_name}"  *)
(* with n the sanitized name; for a name of 1 to 50 letters, inner spaces, *)
(* hyphens and apostrophes, with budget left, greet succeeds and n is the  *)
(* name as given.                                                          *)
C10_GreetingText ==
    [][op' = "greet" =>
        /\ outcome' = "ok" =>
              greeting' = Greeting(sanitize_input(greetArg'.text, <<50>>, TRUE),
                                   app_name)
        /\ (PlainName(greetArg') /\ remaining_requests(greet_identifier) > 0) =>
              /\ outcome' = "ok"
              /\ greeting' = Greeting(greetArg'.text, app_name)]_vars

\* a name that sanitization changes has been greeted
C10_Witness ==
    /\ op = "greet"
    /\ outcome = "ok"
    /\ sanitize_input(greetArg.text, <<50>>, TRUE) # greetArg.text
    /\ greeting = Greeting(sanitize_input(greetArg.text, <<50>>, TRUE), app_name)

\* the name is a string of more than 50 characters, not all of them whitespace
TooLongName(name) ==
    /\ name.is_str
    /\ Len(name.text) > 50
    /\ \E i \in 1..Len(name.text) : ~IsSpace(name.text[i])

\* the name is made of exactly n letters, hyphens and apostrophes
ValidNameOfLength(name, n) ==
    /\ name.is_str
    /\ Len(name.text) = n
    /\ \A i \in 1..n :
          \/ name.text[i] \in 65..90 \/ name.text[i] \in 97..122
          \/ name.text[i] \in {45, 39}

(* C11, as stated: every greet of a string of more than 50 characters that *)
(* is not whitespace-only fails with the length error, and every greet of  *)
(* a name of exactly 1 or exactly 50 valid characters succeeds.            *)
C11_LengthErrorOnRawInput ==
    [][op' = "greet" =>
        /\ TooLongName(greetArg') => outcome' = "length"
        /\ (ValidNameOfLength(greetArg', 1) \/ ValidNameOfLength(greetArg', 50))
              => outcome' = "ok"]_vars

(* C11, amended: when the rate limiter admits the call, a string of more   *)
(* than 50 characters that is not whitespace-only fails with the length    *)
(* error, also when its trimmed or sanitized form has 50 characters or     *)
(* fewer, and a name of exactly 1 or exactly 50 valid characters succeeds. *)
C11_LengthErrorOnRawInputIfAdmitted ==
    [][(op' = "greet" /\ WouldAllow(greet_identifier)) =>
        /\ TooLongName(greetArg') => outcome' = "length"
        /\ (ValidNameOfLength(greetArg', 1) \/ ValidNameOfLength(greetArg', 50))
              => outcome' = "ok"]_vars

\* a name of 51 characters whose sanitized form has 50 or fewer was refused
\* for its length
C11_Witness ==
    /\ op = "greet"
    /\ outcome = "length"
    /\ Len(greetArg.text) = 51
    /\ Len(sanitize_input(greetArg.text, << >>, TRUE)) <= 50

\* c is an ASCII letter, the space character, a hyphen or an apostrophe
AllowedNameCharacter(c) ==
    c \in 65..90 \/ c \in 97..122 \/ c \in {32, 45, 39}

(* C12: a greet whose sanitized name holds a character outside ASCII       *)
(* letters, space, hyphen and apostrophe does not succeed, and fails with  *)
(* the charset error when no earlier check refuses it; the name embedded   *)
(* in a successful greeting has only characters of [A-Za-z \-'].           *)
C12_OnlyAsciiNameCharactersGreeted ==
    (op = "greet" /\ greetArg.is_str) =>
        LET sanitized_name == sanitize_input(greetArg.text, <<50>>, TRUE)
            outside == \E i \in 1..Len(sanitized_name) :
                          ~AllowedNameCharacter(sanitized_name[i])
        IN  /\ outcome = "ok" =>
                  /\ ~outside
                  /\ greeting = Greeting(sanitized_name, app_name)
            /\ (outside /\ outcome \notin {"rate_limit", "empty", "length",
                                            "newline_tab"})
                  => outcome = "charset"

\* the error greet raises for the name when the rate limiter admits the
\* call, "ok" when it raises none
NameError(name) ==
    LET bad == {k \in 2..Len(CheckOrder) : Violates(CheckOrder[k], name)}
    IN  IF bad = {} THEN "ok" ELSE CheckOrder[Least(bad)]

\* the calls the rate limiter would still admit now
Budget ==
    Max(0, max_requests
             - CountAfter(StoredTimestamps(greet_identifier), clock - window_ms))

\* what the k-th greet of the list comes to when the k - 1 before it succeeded
ExpectedOutcome(name_list, k) ==
    IF Budget < k THEN "rate_limit" ELSE NameError(name_list[k])

(* C13: get_multiple_greetings returns one greeting per name in input      *)
(* order when every greet succeeds (the empty list for the empty list);    *)
(* otherwise it raises the error of the first failing name, returns no     *)
(* list, and has passed no name after the failing one to greet.            *)
C13_AllOrNothingInOrder ==
    [][op' = "get_multiple_greetings" =>
        LET failing == {k \in 1..Len(names') : ExpectedOutcome(names', k) # "ok"}
        IN  IF failing = {}
            THEN /\ outcome' = "ok"
                 /\ passed' = Len(names')
                 /\ greetings' =
                        [k \in 1..Len(names') |->
                            Greeting(sanitize_input(names'[k].text, <<50>>, TRUE),
                                     app_name)]
            ELSE /\ outcome' = ExpectedOutcome(names', Least(failing))
                 /\ passed' = Least(failing)
                 /\ greetings' = << >>]_vars

\* a list whose first name was greeted and whose second name was refused
\* has raised the error of the second name
C13_Witness ==
    /\ op = "get_multiple_greetings"
    /\ Len(names) = 2
    /\ passed = 2
    /\ outcome \notin {"ok", "none"}
    /\ greetings = << >>

----------------------------------------------------------------------------
(* Properties of sanitize_input.                                           *)

\* sanitize_input has been called with an input that is not a str
SanitizedNonString == op = "sanitize_input" /\ ~sanArg.input_str.is_str

\* sanitize_input has been called with a str
SanitizedString == op = "sanitize_input" /\ sanArg.input_str.is_str

(* C16, as stated: sanitize_input called with an input that is not a       *)
(* string raises a TypeError and returns no value.                         *)
C16_NonStringRaisesTypeError ==
    SanitizedNonString => (sanRet.raised = "TypeError" /\ ~sanRet.returned)

(* C16, amended: sanitize_input called with an input that is not a string  *)
(* raises a ValueError, whatever the options, and returns no value.        *)
C16_NonStringRaisesValueError ==
    SanitizedNonString => (sanRet.raised = "ValueError" /\ ~sanRet.returned)

\* a call with a non-string input and both options set has raised
C16_Witness ==
    /\ SanitizedNonString
    /\ sanArg.max_length = <<2>>
    /\ sanArg.strip_html
    /\ sanRet.raised # "none"

\* the first n characters of text
Prefix(text, n) == SubSeq(text, 1, IF n < Len(text) THEN n ELSE Len(text))

(* C17: when max_length is a non-negative integer, 0 included, the string  *)
(* sanitize_input returns has at most max_length characters and is the     *)
(* first max_length characters of what the steps before truncation         *)
(* (stripping, control, script and HTML removal) produce.                  *)
C17_TruncatedToMaxLength ==
    (SanitizedString /\ sanArg.max_length # << >> /\ sanArg.max_length[1] >= 0)
        => /\ sanRet.returned
           /\ Len(sanRet.value) <= sanArg.max_length[1]
           /\ sanRet.value =
                 Prefix(sanitize_input(sanArg.input_str.text, << >>,
                                       sanArg.strip_html),
                        sanArg.max_length[1])

\* c is an ASCII control character
IsControl(c) == c \in 0..31 \/ c = 127

(* C18: for every string input and every combination of max_length and    *)
(* strip_html, the string sanitize_input returns holds no ASCII control    *)
(* character (0x00-0x1F, 0x7F); the control characters are removed, not    *)
(* replaced: without "<" in the input and without max_length, the result   *)
(* is shorter than the stripped input by the number of its control         *)
(* characters.                                                             *)
C18_NoControlCharacterReturned ==
    SanitizedString =>
        LET text == sanArg.input_str.text
            stripped == strip(text)
            controls == {i \in 1..Len(stripped) : IsControl(stripped[i])}
        IN  /\ sanRet.returned
            /\ \A i \in 1..Len(sanRet.value) : ~IsControl(sanRet.value[i])
            /\ (sanArg.max_length = << >> /\ \A i \in 1..Len(text) : text[i] # 60)
                  => Len(sanRet.value) = Len(stripped) - Cardinality(controls)

\* an input with a tab between two letters has come back as the two letters
C18_Witness ==
    /\ SanitizedString
    /\ sanArg.input_str.text = <<65, 9, 65>>
    /\ sanRet.value = <<65, 65>>

----------------------------------------------------------------------------
(* Properties of is_sensitive_value.                                       *)

\* text has only ASCII characters
IsAscii(text) == \A i \in 1..Len(text) : text[i] < 128

\* the lowercased key contains password, secret, key, token or credential
KeyNamesSecret(key) ==
    \E word \in {<<112, 97, 115, 115, 119, 111, 114, 100>>,
                <<115, 101, 99, 114, 101, 116>>,
                <<107, 101, 121>>,
                <<116, 111, 107, 101, 110>>,
                <<99, 114, 101, 100, 101, 110, 116, 105, 97, 108>>} :
        contains(lower(key), word)

\* the lowercased value contains secret, password, token or key
ValueNamesSecret(value) ==
    \E word \in {<<115, 101, 99, 114, 101, 116>>,
                <<112, 97, 115, 115, 119, 111, 114, 100>>,
                <<116, 111, 107, 101, 110>>,
                <<107, 101, 121>>} :
        contains(lower(value), word)

\* text is made only of least or more characters of [A-Za-z0-9+/=]
Base64Like(text, least) ==
    /\ Len(text) >= least
    /\ \A i \in 1..Len(text) :
          text[i] \in (65..90) \cup (97..122) \cup (48..57) \cup {43, 47, 61}

\* text is made only of least or more hex digits of either case
HexLike(text, least) ==
    /\ Len(text) >= least
    /\ \A i \in 1..Len(text) :
          text[i] \in (48..57) \cup (97..102) \cup (65..70)

\* text without the one newline that may end it
WithoutFinalNewline(text) ==
    IF Len(text) > 0 /\ text[Len(text)] = 10
    THEN SubSeq(text, 1, Len(text) - 1) ELSE text

\* is_sensitive_value has returned
Classified == op = "is_sensitive_value" /\ sensRet.returned

(* C14, as stated: is_sensitive_value is true exactly when the lowercased  *)
(* key contains a sensitive word, or the value consists only of 20 or more *)
(* base64 characters, or only of 32 or more hex digits, or the lowercased  *)
(* value contains an indicator; and the result is the same for the key and *)
(* value in capitals and in small letters.                                 *)
C14_SensitiveIff ==
    Classified =>
        /\ sensRet.value <=>
              \/ KeyNamesSecret(sensArg.key)
              \/ Base64Like(sensArg.value, 20)
              \/ HexLike(sensArg.value, 32)
              \/ ValueNamesSecret(sensArg.value)
        /\ is_sensitive_value(upper(sensArg.key), upper(sensArg.value))
              = sensRet.value
        /\ is_sensitive_value(lower(sensArg.key), lower(sensArg.value))
              = sensRet.value

(* C14, amended: is_sensitive_value is true exactly when the lowercased    *)
(* key contains a sensitive word, or the value, without the one newline    *)
(* that may end it, consists only of 20 or more base64 characters or only  *)
(* of 32 or more hex digits, or the lowercased value contains an           *)
(* indicator; for an ASCII key and value the result is the same in         *)
(* capitals and in small letters.                                          *)
C14_SensitiveIffUpToFinalNewline ==
    Classified =>
        /\ sensRet.value <=>
              \/ KeyNamesSecret(sensArg.key)
              \/ Base64Like(WithoutFinalNewline(sensArg.value), 20)
              \/ HexLike(WithoutFinalNewline(sensArg.value), 32)
              \/ ValueNamesSecret(sensArg.value)
        /\ (IsAscii(sensArg.key) /\ IsAscii(sensArg.value)) =>
              /\ is_sensitive_value(upper(sensArg.key), upper(sensArg.value))
                    = sensRet.value
              /\ is_sensitive_value(lower(sensArg.key), lower(sensArg.value))
                    = sensRet.value

\* a value of 20 letters and a final newline under a key without a sensitive
\* word has been flagged
C14_Witness ==
    /\ Classified
    /\ ~KeyNamesSecret(sensArg.key)
    /\ sensArg.value = Repeat(65, 20) \o <<10>>
    /\ sensRet.value

(* C15: is_sensitive_value("X", "SGVsbG8gV29ybGQ=") and                    *)
(* is_sensitive_value("SOME_VAR", "SGVsbG8gV29ybGQ=") return True: the     *)
(* base64-like value is flagged under a key without a sensitive word.      *)
C15_Base64ExampleFlagged ==
    (/\ Classified
     /\ sensArg.key \in {<<88>>, <<83, 79, 77, 69, 95, 86, 65, 82>>}
     /\ sensArg.value = <<83, 71, 86, 115, 98, 71, 56, 103, 86,
                        50, 57, 121, 98, 71, 81, 61>>)
        => sensRet.value

----------------------------------------------------------------------------
(* Properties of validate_config.                                          *)

\* text is MAJOR.MINOR.PATCH: three numbers in ASCII digits with a dot
\* between them
ThreeNumbers(text) ==
    \E i, j \in 1..Len(text) :
        /\ 1 < i /\ i + 1 < j /\ j < Len(text)
        /\ \A k \in 1..Len(text) :
              IF k \in {i, j} THEN text[k] = 46 ELSE text[k] \in 48..57

(* C20: validate_config raises ConfigurationError for every app_version    *)
(* that is not three dot-separated non-negative integers ("1", "1.0",      *)
(* "1.0.0.0", "1.0.0-beta", "v1.0.0", "1.0.0a" among them), and raises no  *)
(* error about the version for a version MAJOR.MINOR.PATCH.                *)
C20_OnlyThreePartVersionsAccepted ==
    (op = "validate_config" /\ confRet # "none") =>
        IF ThreeNumbers(confArg.app_version)
        THEN confRet \notin {"app_version_empty", "app_version_format"}
        ELSE confRet # "ok"

----------------------------------------------------------------------------
(* Properties of main_fallback.                                            *)

\* the run of main_fallback is over
RunOver == run.pc \in {"done", "exited"}

\* the run returned after the success message, without a call of sys.exit
CompletedNormally ==
    run.pc = "done" /\ run.success_logged /\ run.exit_code = -1

(* C19, as stated: every run ends with exit code 1 when load_configuration *)
(* raised ConfigurationError or greet raised a validation error, with exit *)
(* code 0 on KeyboardInterrupt, and with normal completion in every other  *)
(* case; after a configuration error no greeting has been produced.        *)
C19_RunOutcomes ==
    RunOver =>
        /\ IF run.exception \in {"ConfigurationError", "ValueError"}
           THEN run.pc = "exited" /\ run.exit_code = 1 /\ ~run.success_logged
           ELSE IF run.exception = "KeyboardInterrupt"
           THEN run.pc = "exited" /\ run.exit_code = 0 /\ ~run.success_logged
           ELSE CompletedNormally
        /\ run.exception = "ConfigurationError" => run.greetings = 0

(* C19, amended: a run ends with the exit code of argparse (2 for a        *)
(* command line it rejects, 0 for --help) when parse_arguments exits, with *)
(* exit code 1 when load_configuration raised ConfigurationError, when     *)
(* setup_logging could not open app.log, or when greet raised a validation *)
(* error, with exit code 0 on KeyboardInterrupt, and with normal           *)
(* completion in every other case; after an exit of argparse, a            *)
(* configuration error or a logging error no greeting has been produced.   *)
C19_RunOutcomesWithArgparseAndLogging ==
    RunOver =>
        /\ IF run.exception \in {"ConfigurationError", "ValueError", "OSError"}
           THEN run.pc = "exited" /\ run.exit_code = 1 /\ ~run.success_logged
           ELSE IF run.exception = "KeyboardInterrupt"
           THEN run.pc = "exited" /\ run.exit_code = 0 /\ ~run.success_logged
           ELSE IF run.exception = "SystemExit"
           THEN /\ run.pc = "exited" /\ ~run.success_logged
                /\ run.exit_code = IF env.argv = "help" THEN 0 ELSE 2
                /\ env.argv # "ok"
           ELSE CompletedNormally
        /\ run.exception \in {"ConfigurationError", "OSError", "SystemExit"}
              => run.greetings = 0
        /\ run.exception = "ConfigurationError" <=>
              (run.pc = "exited" /\ run.exit_code = 1 /\ env.argv = "ok"
               /\ validate_config(env.config) # "ok")
        /\ CompletedNormally =>
              run.greetings = IF run.args.list_greetings THEN 5 ELSE 1

\* a run whose first greeting was produced and whose list of greetings was
\* refused by the rate limiter has ended with exit code 1
C19_Witness ==
    /\ RunOver
    /\ run.exception = "ValueError"
    /\ run.greetings = 1
    /\ run.exit_code = 1
    /\ ~WouldAllow(greet_identifier)

----------------------------------------------------------------------------
(* Further properties of the RateLimiter.                                  *)

\* the admitted calls of id whose timestamp t has now < t + window_ms
StillCounted(id, now) ==
    Cardinality({i \in 1..Len(history) :
                    /\ history[i].id = id
                    /\ history[i].ret
                    /\ now < history[i].t + window_ms})

(* C21: a timestamp recorded at time t is counted by is_allowed and by     *)
(* get_remaining_requests at every time now < t + window_ms and at no time *)
(* now >= t + window_ms: is_allowed admits exactly when fewer than         *)
(* max_requests recorded timestamps have now < t + window_ms, and          *)
(* get_remaining_requests of a known identifier returns max_requests less  *)
(* their number, not below 0.                                              *)
C21_StrictPruning ==
    [][/\ op' = "is_allowed" =>
            (allowed' <=> StillCounted(arg', clock) < max_requests)
       /\ (op' = "get_remaining_requests" /\ arg' \in DOMAIN requests) =>
            remaining' = Max(0, max_requests - StillCounted(arg', clock))]_vars

\* with one slot, a call made exactly window_ms after the admitted one was
\* admitted
C21_Witness ==
    /\ op = "is_allowed"
    /\ allowed
    /\ max_requests = 1
    /\ window_ms > 0
    /\ \E i \in 1..Len(history) - 1 :
          /\ history[i].id = arg
          /\ history[i].ret
          /\ history[i].t + window_ms = clock

(* C22: with max_requests >= 0, the list of timestamps stored for any      *)
(* identifier never has more than max_requests elements, whatever          *)
(* is_allowed and get_remaining_requests calls were made and whatever the  *)
(* clock read.                                                             *)
C22_StoredListBounded ==
    max_requests >= 0 =>
        \A id \in DOMAIN requests : Len(requests[id]) <= max_requests

\* a full list of two timestamps taken at different times is stored, and a
\* call of the identifier has been refused
C22_Witness ==
    \E id \in DOMAIN requests :
        /\ max_requests = 2
        /\ Len(requests[id]) = 2
        /\ requests[id][1] # requests[id][2]
        /\ \E i \in 1..Len(history) : history[i].id = id /\ ~history[i].ret

\* the list a RateLimiter that received only the is_allowed calls of calls
\* (the first k of them) holds for their identifier
RECURSIVE ListAfter(_, _)
ListAfter(calls, k) ==
    IF k = 0 THEN << >>
    ELSE LET valid == valid_requests(ListAfter(calls, k - 1), calls[k].t)
         IN  IF limit_reached(valid) THEN valid ELSE Append(valid, calls[k].t)

\* the list of id in a RateLimiter that never saw another identifier
AloneList(id) == ListAfter(CallsOf(id), Len(CallsOf(id)))

(* C23: a call of is_allowed or get_remaining_requests for identifier a    *)
(* leaves the key and the stored timestamps of every other identifier b    *)
(* as they were, and what a call for b returns is what a RateLimiter that  *)
(* only ever received the calls for b would return at the same time.       *)
C23_IdentifierIsolation ==
    [][/\ op' \in {"is_allowed", "get_remaining_requests"} =>
            \A b \in Identifiers \ {arg'} :
                /\ (b \in DOMAIN requests') <=> (b \in DOMAIN requests)
                /\ StoredTimestamps(b)' = StoredTimestamps(b)
       /\ op' = "is_allowed" =>
            (allowed' <=> ~limit_reached(valid_requests(AloneList(arg'), clock)))
       /\ op' = "get_remaining_requests" =>
            remaining' =
                IF CallsOf(arg') = << >> THEN max_requests
                ELSE Max(0, max_requests
                              - Len(valid_requests(AloneList(arg'), clock)))]_vars

\* v is admitted although u has used up its budget at the same instant
C23_Witness ==
    /\ op = "is_allowed" /\ arg = "v" /\ allowed
    /\ max_requests = 1 /\ window_ms > 0
    /\ "u" \in DOMAIN requests /\ Len(requests["u"]) = 1
    /\ requests["u"][1] = clock
    /\ \E i \in 1..Len(history) : history[i].id = "u" /\ ~history[i].ret

----------------------------------------------------------------------------
(* Further properties of sanitize_input. *)

\* text holds a "<" with a ">" somewhere after it
HasTagLike(text) ==
    \E i \in 1..Len(text) : \E j \in (i + 1)..Len(text) :
        text[i] = 60 /\ text[j] = 62

(* C24: when strip_html is set, the string sanitize_input returns holds no *)
(* "<" that is followed, anywhere later in it, by a ">": the single pass   *)
(* that removes the tags neither leaves nor creates a "<...>" sequence.    *)
C24_NoTagLikeSubstring ==
    (SanitizedString /\ sanArg.strip_html) =>
        (sanRet.returned /\ ~HasTagLike(sanRet.value))

\* "<A<A>>A" has come back as ">A"
C24_Witness ==
    /\ SanitizedString /\ sanArg.strip_html
    /\ sanArg.input_str.text = <<60, 65, 60, 65, 62, 62, 65>>
    /\ sanArg.max_length = << >>
    /\ sanRet = Returned(<<62, 65>>)

----------------------------------------------------------------------------
(* is_allowed and get_remaining_requests at one instant. *)

\* is_allowed(id) would return true exactly if get_remaining_requests(id),
\* read at the same instant, is greater than 0
AllowedIffRemaining ==
    \A id \in Identifiers : is_allowed_result(id) <=> remaining_requests(id) > 0

\* the is_allowed call of this step was admitted and get_remaining_requests
\* of its identifier is, at the same instant, 1 less than before the call
AdmissionTakesOne ==
    \A id \in Identifiers :
        (op' = "is_allowed" /\ arg' = id /\ allowed')
            => remaining_requests(id)' = remaining_requests(id) - 1

(* C25, as stated: at any instant and for any identifier, is_allowed would *)
(* return true exactly if get_remaining_requests at that instant is        *)
(* greater than 0, and an admitted is_allowed call lowers                  *)
(* get_remaining_requests at that instant by exactly 1.                    *)
C25_AllowedIffRemainingAndTakesOne ==
    [][AllowedIffRemaining /\ AdmissionTakesOne]_vars

(* C25, amended: at any instant and for any identifier, is_allowed would   *)
(* return true exactly if get_remaining_requests at that instant is        *)
(* greater than 0; with window_ms > 0 an admitted is_allowed call lowers   *)
(* get_remaining_requests at that instant by exactly 1, and with           *)
(* window_ms = 0 the timestamp it stores is already outside the window and *)
(* get_remaining_requests has the value it had before the call.            *)
C25_AllowedIffRemainingAndTakesOneInWindow ==
    [][/\ AllowedIffRemaining
       /\ window_ms > 0 => AdmissionTakesOne
       /\ window_ms = 0 =>
            \A id \in Identifiers :
                (op' = "is_allowed" /\ arg' = id /\ allowed')
                    => remaining_requests(id)' = remaining_requests(id)]_vars

\* the second call of an identifier was admitted at the instant of the
\* first one and has used up the budget of 2
C25_Witness ==
    /\ op = "is_allowed" /\ allowed
    /\ window_ms > 0 /\ max_requests = 2
    /\ Len(StoredTimestamps(arg)) = 2
    /\ remaining_requests(arg) = 0
    /\ ~is_allowed_result(arg)

----------------------------------------------------------------------------
(* Several GreetingService instances and several names in one process. *)

\* variant: every GreetingService has a RateLimiter of its own
GreetingService_init_own_limiter(config_app_name) ==
    /\ app_name' = config_app_name
    /\ requests' = << >>
    /\ op' = "GreetingService"
    /\ UNCHANGED <<window_ms, max_requests, clock, history, arg, allowed,
                   remaining, raceVars, greetArg, outcome, greeting,
                   greetCalls, multiVars, pureVars, mainVars>>

\* GreetingService.__init__: the calls that follow go through the new
\* instance; rate_limiter is the module's and is not touched
GreetingService_init(config_app_name) ==
    /\ app_name' = config_app_name
    /\ op' = "GreetingService"
    /\ UNCHANGED <<window_ms, max_requests, requests, clock, history, arg,
                   allowed, remaining, raceVars, greetArg, outcome, greeting,
                   greetCalls, multiVars, pureVars, mainVars>>

\* greet calls of any names through any instances
NextServices ==
    \/ GreetTick
    \/ \E config_app_name \in AppNames : GreetingService_init(config_app_name)
    \/ \E name \in MultiNames : greet(name)

SpecServices == InitGreet /\ [][NextServices]_vars

\* the slots of the greet identifier that count at the present time
SlotsTaken == CountAfter(StoredTimestamps(greet_identifier), clock - window_ms)

\* name passes every check of greet that follows the rate limit
ValidName(name) == greet_outcome(name, TRUE) = "ok"

(* C26: a greet call that the rate limit admits takes one slot whether the *)
(* name then passes validation or not, a greet call that the rate limit    *)
(* refuses takes none, and once max_requests slots of the window are       *)
(* taken, by calls of valid or invalid names, the next greet call fails    *)
(* with the rate-limit error, a valid name included.                       *)
C26_EveryAdmittedGreetTakesASlot ==
    [][op' = "greet" =>
          /\ outcome' # "rate_limit" => SlotsTaken' = SlotsTaken + 1
          /\ outcome' = "rate_limit" => SlotsTaken' = SlotsTaken
          /\ SlotsTaken >= max_requests => outcome' = "rate_limit"
          /\ (op = "greet" /\ outcome \notin {"ok", "rate_limit"}
                 /\ SlotsTaken = max_requests /\ ValidName(greetArg'))
                => outcome' = "rate_limit"]_vars

\* a greet call whose name failed the character check has taken the last
\* slot of the window: the next call, of any name, will be refused
C26_Witness ==
    /\ op = "greet" /\ outcome = "charset" /\ allowed
    /\ greetCalls = 1
    /\ SlotsTaken = max_requests
    /\ ~is_allowed_result(greet_identifier)

----------------------------------------------------------------------------
(* The rate limiter after a failed get_multiple_greetings. *)

\* the slots the batch of this step took: one for each name passed to greet,
\* the name the rate limit refused excepted
SlotsOfBatch == IF outcome' = "rate_limit" THEN passed' - 1 ELSE passed'

\* this step is a get_multiple_greetings call that raised
BatchFailed == op' = "get_multiple_greetings" /\ outcome' # "ok"

(* C27, as stated: after a failed get_multiple_greetings the slots taken   *)
(* by the names up to and including the failing one stay recorded, the     *)
(* state of the rate limiter differs from the state before the call, and a *)
(* batch longer than the remaining budget fails with the rate-limit error  *)
(* after taking all remaining slots.                                       *)
C27_FailedBatchChangesLimiter ==
    [][BatchFailed =>
          /\ SlotsTaken' = SlotsTaken + SlotsOfBatch
          /\ requests' # requests
          /\ Len(names') > Budget =>
                (outcome' = "rate_limit" /\ SlotsTaken' = max_requests)]_vars

(* C27, amended: after a failed get_multiple_greetings the slots taken by  *)
(* the names up to the failing one, and by the failing one unless the rate *)
(* limit refused it, stay recorded; the state of the rate limiter is the   *)
(* state before the call exactly if the first name was refused by the rate *)
(* limit and no stored timestamp had expired; a batch longer than the      *)
(* remaining budget whose names within the budget are all valid fails with *)
(* the rate-limit error after taking all remaining slots.                  *)
C27_FailedBatchKeepsSlots ==
    [][BatchFailed =>
          /\ SlotsTaken' = SlotsTaken + SlotsOfBatch
          /\ (requests' = requests) <=>
                /\ outcome' = "rate_limit"
                /\ passed' = 1
                /\ SlotsTaken = Len(StoredTimestamps(greet_identifier))
          /\ (/\ Len(names') > Budget
              /\ \A k \in 1..Budget : ValidName(names'[k]))
                => /\ outcome' = "rate_limit"
                   /\ passed' = Budget + 1
                   /\ SlotsTaken' = max_requests]_vars

\* a batch of two valid names has taken the last slot for the first name and
\* failed with the rate-limit error on the second
C27_Witness ==
    /\ op = "get_multiple_greetings"
    /\ Len(names) = 2 /\ ValidName(names[1]) /\ ValidName(names[2])
    /\ greetCalls = 1
    /\ outcome = "rate_limit" /\ passed = 2
    /\ SlotsTaken = max_requests

----------------------------------------------------------------------------
(* sanitize_input applied to its own result. *)

(* C28: sanitize_input is idempotent: for every string and every fixed     *)
(* max_length and strip_html, sanitizing the returned string again returns *)
(* it unchanged; the returned string has no leading or trailing whitespace *)
(* and holds no complete script block a second pass would remove.          *)
C28_SanitizeIdempotent ==
    SanitizedString =>
        /\ sanRet.returned
        /\ sanitize_input(sanRet.value, sanArg.max_length, sanArg.strip_html)
              = sanRet.value
        /\ strip(sanRet.value) = sanRet.value
        /\ remove_script_tags(sanRet.value) = sanRet.value

----------------------------------------------------------------------------
(* The name inside a greeting. *)

\* the name greet puts between "Hello, " and "! Welcome to "
EmbeddedName == sanitize_input(greetArg.text, <<50>>, TRUE)

(* C29: the name embedded in every successful greeting is non-empty, is    *)
(* not made of whitespace only and has no leading or trailing whitespace,  *)
(* whatever the raw input, inputs with control characters or tags that the *)
(* sanitization removes included.                                          *)
C29_EmbeddedNameTrimmed ==
    (op = "greet" /\ outcome = "ok") =>
        /\ greeting = Greeting(EmbeddedName, app_name)
        /\ EmbeddedName # << >>
        /\ strip(EmbeddedName) # << >>
        /\ strip(EmbeddedName) = EmbeddedName

----------------------------------------------------------------------------
(* One rate limiter for every GreetingService. *)

(* C30: every GreetingService instance of a process draws on one budget:   *)
(* creating an instance leaves the module's RateLimiter as it is, a greet  *)
(* through any instance is counted under the one identifier                *)
(* "greet_function", and it fails with the rate-limit error exactly if     *)
(* the slots of that identifier are used up, by whichever instances they   *)
(* were taken; a greet through a new instance is refused when the calls    *)
(* through another instance took the last slot.                            *)
C30_SharedBudget ==
    [][/\ op' = "GreetingService" =>
            /\ requests' = requests
            /\ window_ms' = window_ms /\ max_requests' = max_requests
       /\ op' = "greet" =>
            /\ arg' = greet_identifier
            /\ DOMAIN requests' = {greet_identifier}
            /\ outcome' = "rate_limit" <=> SlotsTaken >= max_requests
            /\ outcome' # "rate_limit" =>
                    requests'[greet_identifier] =
                        Append(valid_requests(StoredTimestamps(greet_identifier),
                                              clock), clock)
       /\ (/\ op = "GreetingService" /\ op' = "greet"
           /\ greeting # << >> /\ SlotsTaken = max_requests)
            => outcome' = "rate_limit"]_vars

\* "A" was greeted through one instance and took the last slot; the calls
\* now go through an instance with another configuration and will be
\* refused
C30_Witness ==
    /\ op = "GreetingService"
    /\ \E other \in AppNames \ {app_name} : greeting = Greeting(<<65>>, other)
    /\ greetCalls = 1
    /\ SlotsTaken = max_requests
    /\ ~is_allowed_result(greet_identifier)

====
